---- MODULE Spec2Model ----
(***************************************************************************)
(* Model of the LLM orchestration core of the Webex chatbot:               *)
(*   - MCPService.execute_tool / execute_tools   (app/services/mcp_service) *)
(*   - LLMService.chat / stream / _get_provider  (app/services/llm_service) *)
(*   - ProviderRegistry                          (app/providers/registry)   *)
(* Text is modelled as a sequence of tokens so that concatenation, joining *)
(* and formatting are computed and not assumed.                            *)
(***************************************************************************)
EXTENDS Integers, Sequences, FiniteSets, TLC

VARIABLES
    \* ---- configuration, fixed after construction ----
    mcpEnabled,      \* MCPService._enabled
    available,       \* Settings.get_available_providers(), as a set
    hasMcp,          \* LLMService._mcp is not None
    maxIter,         \* LLMService._max_tool_iterations
    \* ---- ProviderRegistry ----
    regCount,        \* number of provider instances constructed so far
    regCache,        \* ProviderRegistry._instances: cache key -> instance
    regLast,         \* the last registry operation: arguments, result, state before
    gocSeen,         \* <<kind, key>> -> instance get_or_create_provider returned
                     \* for it since the last clear_cache
    hpPc,            \* get_healthy_provider: idle, probing, awaiting, returned, raised
    hpTry,           \* providers_to_try
    hpIdx,           \* index of the candidate being tried
    hpProbed,        \* <<kind, outcome>> of every health_check awaited, in order
    hpArgs,          \* the preferred and fallback_order arguments
    hpRet,           \* the instance returned
    \* ---- MCPService.execute_tools ----
    etPc,            \* position of execute_tools: idle, gathering, returned, raised
    etCalls,         \* the tool_calls argument of the running execute_tools
    taskPc,          \* per task of the batch: created, posted, done
    taskReply,       \* per task: what the endpoint answered (None before)
    taskOutcome,     \* per task: the ToolResult returned or the exception raised
    completion,      \* indices of the tasks in the order they completed
    requestsSent,    \* names of the tools POSTed to the endpoint, in order
    etResults,       \* the list execute_tools returned
    \* ---- LLMService.chat ----
    chatPc,          \* idle, awaiting_model, executing_tools, returned, raised
    chatArgs,        \* the arguments of the running request
    chatProvider,    \* the provider instance resolved at the start
    chatTools,       \* the tools handed to the provider, or None
    chatMessages,    \* messages: the context
    iterations,      \* the loop counter
    chatResponses,   \* every response provider.chat returned, in order
    chatReturn,      \* the response chat returned
    chatError,       \* none, max_tool_iterations, provider, construction
    chatCallLog,     \* every provider.chat call: instance, tools, context sent
    gatewayCalls,    \* every batch handed to MCPService.execute_tools
    chatToolResults, \* tool_results of every tool round, in order
    chatRaisedAt,    \* which provider.chat call of the request raised (0: none)
    \* ---- LLMService.stream ----
    streamPc,        \* idle, streaming, executing_tools, ended, raised
    streamArgs,      \* the arguments of the running request
    streamProvider,  \* the provider instance resolved at the start
    streamTools,     \* the tools handed to the provider, or None
    streamMessages,  \* messages: the context
    streamIter,      \* iterations
    accCalls,        \* accumulated_tool_calls
    accContent,      \* accumulated_content
    roundDone,       \* the provider yielded its terminal chunk in this round
    roundChunks,     \* chunks the provider yielded so far in this request
    delivered,       \* the chunks yielded to the consumer, in order
    streamRounds,    \* every provider.stream call: instance, tools, context sent
    streamGateway,   \* every batch handed to MCPService.execute_tools
    streamToolResults, \* tool_results of every tool round, in order
    streamExit,      \* how the generator ended: terminal_chunk, break, max_iterations
    streamError,     \* none, provider, construction
    allRoundsDone,   \* every exhausted provider stream had yielded a terminal chunk
    toolRounds,      \* rounds that ended with the tool calls executed
    provided,        \* what provider.stream yielded (or that it raised), in order
    netStream,       \* the provider's network stream: none, acquired, released
    \* ---- LLMService.health_check ----
    shPc,            \* idle, checking, returned
    shName,          \* the provider_name argument
    shTodo,          \* the providers still to check
    shResults,       \* results: the dict being filled, as a set of items
    shProbes,        \* every provider health_check awaited and what it gave
    \* ---- concurrent requests on the registry ----
    reqPc,           \* per request: new, awaiting, done, failed
    reqKey,          \* per request: the cache key of its get_or_create_provider
    reqGot,          \* per request: the instance get_or_create_provider returned
    ctorCount,       \* per cache key: instances get_or_create_provider constructed
    \* ---- one provider's stream() ----
    pvPc,            \* idle, streaming, ended, raised
    pvKind,          \* the provider class whose stream() runs
    pvAcc,           \* current_tool_call(s) / accumulated_tool_calls
    pvOut,           \* the StreamChunks yielded, in order
    pvSent,          \* per tool invocation: what the vendor sent for it so far
    pvOpen,          \* the content block the vendor has open: none, text, tool_use
    pvFinished,      \* the vendor sent its terminal event
    pvVendorRaised,  \* the vendor's stream raised
    pvText,          \* the text the vendor sent, concatenated
    pvEvents,        \* vendor events handled
    pvReason,        \* the stop reason the vendor reported for the message, or None
    \* ---- translation to the vendor formats ----
    fmMsg,           \* the ChatMessage to translate
    fmList,          \* the message list to translate for Gemini
    fmOut,           \* per vendor format: what to_<vendor>_format returned
    fmConv,          \* what GeminiProvider._convert_messages returned
    fmDone,          \* the translations applied so far
    \* ---- translation of a tool's parameter schema for Gemini ----
    scIn,            \* Tool.parameters
    scTool,          \* what Tool._convert_schema_for_gemini returned
    scProvider,      \* what GeminiProvider._convert_schema_to_gemini returned
    scDone           \* the translations applied so far

cfgVars == <<mcpEnabled, available, hasMcp, maxIter>>

regVars == <<regCount, regCache, regLast, gocSeen, hpPc, hpTry, hpIdx, hpProbed,
             hpArgs, hpRet>>

toolVars == <<etPc, etCalls, taskPc, taskReply, taskOutcome,
              completion, requestsSent, etResults>>

chatVars == <<chatPc, chatArgs, chatProvider, chatTools, chatMessages, iterations,
              chatResponses, chatReturn, chatError, chatCallLog, gatewayCalls,
              chatToolResults, chatRaisedAt>>

streamVars == <<streamPc, streamArgs, streamProvider, streamTools, streamMessages,
                streamIter, accCalls, accContent, roundDone, roundChunks, delivered,
                streamRounds, streamGateway, streamExit, streamError, allRoundsDone,
                toolRounds, streamToolResults, provided, netStream>>

svcHealthVars == <<shPc, shName, shTodo, shResults, shProbes>>

concVars == <<reqPc, reqKey, reqGot, ctorCount>>

provVars == <<pvPc, pvKind, pvAcc, pvOut, pvSent, pvOpen, pvFinished, pvVendorRaised,
              pvText, pvEvents, pvReason>>

fmtVars == <<fmMsg, fmList, fmOut, fmConv, fmDone>>

schemaVars == <<scIn, scTool, scProvider, scDone>>

extVars == <<concVars, provVars, fmtVars, schemaVars>>

vars == <<cfgVars, regVars, toolVars, chatVars, streamVars, svcHealthVars, extVars>>

notTools == <<cfgVars, regVars, chatVars, streamVars, svcHealthVars, extVars>>
notReg == <<cfgVars, toolVars, chatVars, streamVars, svcHealthVars, extVars>>
notChat == <<cfgVars, regVars, toolVars, streamVars, svcHealthVars, extVars>>
notRegChat == <<cfgVars, toolVars, streamVars, svcHealthVars, extVars>>
notStream == <<cfgVars, regVars, toolVars, chatVars, svcHealthVars, extVars>>

None == "None"

-----------------------------------------------------------------------------
(* Bounds *)

\* largest batch of tool calls handed to execute_tools
MaxCalls == 2

\* most provider instances constructed in one behaviour
MaxInstances == 3

\* largest max_tool_iterations a service is constructed with
MaxIterations == 3

\* largest max_tool_iterations of a service that streams
MaxStreamIterations == 2

\* a provider yields no further content or tool-call chunk once it has
\* yielded this many chunks in one request
MaxChunks == 2

\* LLMService.__init__: max_tool_iterations: int = 10
DefaultMaxToolIterations == 10

-----------------------------------------------------------------------------
(* Small helpers on sequences *)

Range(s) == {s[i] : i \in 1..Len(s)}

RECURSIVE SeqsUpTo(_, _)
SeqsUpTo(S, n) ==
    IF n = 0 THEN {<<>>}
    ELSE LET shorter == SeqsUpTo(S, n - 1)
         IN shorter \cup {Append(s, x) : s \in {t \in shorter : Len(t) = n - 1}, x \in S}

\* "\n".join(parts) over token sequences
RECURSIVE JoinLines(_)
JoinLines(parts) ==
    IF parts = <<>> THEN <<>>
    ELSE IF Len(parts) = 1 THEN parts[1]
    ELSE parts[1] \o <<"\n">> \o JoinLines(Tail(parts))

-----------------------------------------------------------------------------
(* Settings and provider instances (app/config.py, app/providers/*.py) *)

Kinds == {"anthropic", "openai", "gemini", "ollama"}

\* Settings.default_llm_provider
DefaultProvider == "anthropic"

\* Settings.<kind>_model, handed to the constructor through ProviderConfig
DefaultModel(kind) ==
    CASE kind = "anthropic" -> "claude-sonnet-4-20250514"
      [] kind = "openai" -> "gpt-4o"
      [] kind = "gemini" -> "gemini-1.5-pro"
      [] kind = "ollama" -> "llama3.1:8b"

\* a model name a request may ask for instead of the configured one
CustomModel == "custom-model"

\* the sets Settings.get_available_providers can return: ollama always
AvailableSets == {S \cup {"ollama"} : S \in SUBSET {"anthropic", "openai", "gemini"}}

CacheKeys == Kinds \cup {"shared"}

\* the providers the registry operations are called for directly
RegKinds == {"anthropic", "openai"}

\* a provider instance: its identity, its class and its model attribute
Instance(id, kind, model) == [id |-> id, kind |-> kind, model |-> model]
NoInstance == Instance(0, "none", "none")

\* the model keyword of **kwargs: absent, or present (possibly with the value None)
NoKw == [has |-> FALSE, model |-> None]
ModelKw(m) == [has |-> TRUE, model |-> m]

-----------------------------------------------------------------------------
(* ProviderRegistry: operations as functions of the registry state           *)
(* reg = [count, cache]; the result is [reg, ret, raised]                    *)

Reg(count, cache) == [count |-> count, cache |-> cache]

EmptyCache == [k \in CacheKeys |-> NoInstance]

\* create_provider returning (and caching) what the cache holds under the kind
CreateProviderCached(reg, kind, kw, ctorOk) ==
    LET model == IF kw.has THEN kw.model ELSE DefaultModel(kind)
        inst == Instance(reg.count + 1, kind, model)
    IN IF ~ctorOk THEN [reg |-> reg, ret |-> NoInstance, raised |-> TRUE]
       ELSE IF reg.cache[kind] # NoInstance
            THEN [reg |-> reg, ret |-> reg.cache[kind], raised |-> FALSE]
            ELSE [reg |-> Reg(reg.count + 1, [reg.cache EXCEPT ![kind] = inst]),
                  ret |-> inst, raised |-> FALSE]

\* lines 36-89: config.model unless the kwargs override it; a new instance
CreateProvider(reg, kind, kw, ctorOk) ==
    LET model == IF kw.has THEN kw.model ELSE DefaultModel(kind)
        inst == Instance(reg.count + 1, kind, model)
    IN IF ctorOk
       THEN [reg |-> Reg(reg.count + 1, reg.cache), ret |-> inst, raised |-> FALSE]
       ELSE [reg |-> reg, ret |-> NoInstance, raised |-> TRUE]

\* get_or_create_provider forgetting to store the instance it constructed
GetOrCreateProviderNoStore(reg, kind, cacheKey, kw, ctorOk) ==
    LET key == IF cacheKey = None THEN kind ELSE cacheKey
    IN IF reg.cache[key] = NoInstance
       THEN CreateProvider(reg, kind, kw, ctorOk)
       ELSE [reg |-> reg, ret |-> reg.cache[key], raised |-> FALSE]

\* lines 91-116
GetOrCreateProvider(reg, kind, cacheKey, kw, ctorOk) ==
    LET key == IF cacheKey = None THEN kind ELSE cacheKey
    IN IF reg.cache[key] = NoInstance
       THEN LET c == CreateProvider(reg, kind, kw, ctorOk)
            IN IF c.raised THEN c
               ELSE [reg |-> Reg(c.reg.count, [c.reg.cache EXCEPT ![key] = c.ret]),
                     ret |-> c.ret, raised |-> FALSE]
       ELSE [reg |-> reg, ret |-> reg.cache[key], raised |-> FALSE]

\* registry.get_provider, lines 184-202, called without arguments
GetProvider(reg, ctorOk) ==
    GetOrCreateProvider(reg, DefaultProvider, None, NoKw, ctorOk)

\* _get_provider without lines 44-49: whatever the registry returns is used
ServiceGetProviderAsCached(reg, name, model, ok1, ok2) ==
    IF name # None
    THEN GetOrCreateProvider(reg, name, None, ModelKw(model), ok1)
    ELSE GetProvider(reg, ok1)

\* LLMService._get_provider, llm_service.py lines 30-51
ServiceGetProvider(reg, name, model, ok1, ok2) ==
    LET first == IF name # None
                 THEN GetOrCreateProvider(reg, name, None, ModelKw(model), ok1)
                 ELSE GetProvider(reg, ok1)
    IN IF first.raised THEN first
       ELSE IF model # None /\ first.ret.model # model
            THEN CreateProvider(first.reg, first.ret.kind, ModelKw(model), ok2)
            ELSE first

\* providers_to_try without the "not in providers_to_try" test
RECURSIVE AppendFallbackNoDedup(_, _, _)
AppendFallbackNoDedup(try, order, avail) ==
    IF order = <<>> THEN try
    ELSE AppendFallbackNoDedup(
             IF Head(order) \in avail THEN Append(try, Head(order)) ELSE try,
             Tail(order), avail)

\* lines 158-160
RECURSIVE AppendFallback(_, _, _)
AppendFallback(try, order, avail) ==
    IF order = <<>> THEN try
    ELSE AppendFallback(
             IF Head(order) \in avail /\ Head(order) \notin Range(try)
             THEN Append(try, Head(order)) ELSE try,
             Tail(order), avail)

\* lines 141-160: the ordered list of providers to try
ProvidersToTry(preferred, order, avail) ==
    AppendFallback(IF preferred # None /\ preferred \in avail THEN <<preferred>> ELSE <<>>,
                   order, avail)

\* lines 144-150
DefaultFallbackOrder == <<"anthropic", "openai", "gemini", "ollama">>

-----------------------------------------------------------------------------
(* Data: ToolCall, ToolResult (app/models/llm.py) *)

ToolCall(id, name) == [id |-> id, name |-> name]

ToolCalls == {ToolCall("call_1", "lookup"), ToolCall("call_2", "ping")}

ToolResult(id, content, isError) ==
    [tool_call_id |-> id, content |-> content, is_error |-> isError]

-----------------------------------------------------------------------------
(* What the tool-execution endpoint can answer to one POST *)

\* items of a content list in the JSON body
TextItem(t) == [t |-> "dict_text", text |-> t]
StrItem(t) == [t |-> "str", text |-> t]
OtherItem == [t |-> "other", text |-> <<>>]

JsonBody(shape, content, isError) ==
    [kind |-> "json", shape |-> shape, content |-> content, isError |-> isError]

EndpointReplies ==
    { [kind |-> "transport_error"],                 \* httpx.ConnectError, timeout
      [kind |-> "status", code |-> 404],
      [kind |-> "status", code |-> 500],
      [kind |-> "malformed"],                       \* 200, body is not JSON
      [kind |-> "not_object"],                      \* 200, JSON but not an object
      JsonBody("missing", <<>>, "absent"),
      JsonBody("str", <<"ok">>, "absent"),
      JsonBody("str", <<"boom">>, "true"),
      JsonBody("list", <<TextItem(<<"a">>), OtherItem, StrItem(<<"b">>)>>, "false"),
      JsonBody("list", <<>>, "absent"),
      JsonBody("dict", <<"k">>, "absent"),
      JsonBody("number", <<>>, "absent") }

NoReply == [kind |-> "none"]
NoOutcome == [kind |-> "pending"]

-----------------------------------------------------------------------------
(* MCPService.execute_tool *)

RECURSIVE ContentParts(_)
ContentParts(items) ==
    IF items = <<>> THEN <<>>
    ELSE LET it == Head(items)
             rest == ContentParts(Tail(items))
         IN IF it.t \in {"dict_text", "str"} THEN <<it.text>> \o rest ELSE rest

\* lines 113-124: the content extracted from a JSON object body; a content that
\* is neither absent, a string, a list nor an object stays what it is (isStr false)
ExtractContent(body) ==
    CASE body.shape = "missing" -> [isStr |-> TRUE, text |-> <<>>]
      [] body.shape = "str" -> [isStr |-> TRUE, text |-> body.content]
      [] body.shape = "list" -> [isStr |-> TRUE, text |-> JoinLines(ContentParts(body.content))]
      [] body.shape = "dict" -> [isStr |-> TRUE, text |-> <<"str(">> \o body.content \o <<")">>]
      [] OTHER -> [isStr |-> FALSE, text |-> <<>>]

Returned(r) == [kind |-> "returned", result |-> r]
Raised(e) == [kind |-> "raised", exc |-> e]

\* the disabled branch answering as if the tool had succeeded
DisabledResultNotError(call) == ToolResult(call.id, <<"MCP tools are disabled">>, FALSE)

\* lines 83-88
DisabledResult(call) == ToolResult(call.id, <<"MCP tools are disabled">>, TRUE)

\* execute_tool without the 404 test of lines 102-107: raise_for_status raises
ExecuteToolOutcomeNoNotFound(call, reply) ==
    CASE reply.kind \in {"transport_error", "status"} ->
            Returned(ToolResult(call.id, <<"Tool execution failed: ", reply.kind>>, TRUE))
      [] reply.kind = "malformed" -> Raised("JSONDecodeError")
      [] reply.kind = "not_object" -> Raised("AttributeError")
      [] reply.kind = "json" ->
            IF ~ExtractContent(reply).isStr
            THEN Raised("TypeError")
            ELSE Returned(ToolResult(call.id, ExtractContent(reply).text,
                                     reply.isError = "true"))

\* lines 96-148: what one execute_tool coroutine ends with, given the reply
ExecuteToolOutcome(call, reply) ==
    CASE reply.kind = "transport_error" ->
            Returned(ToolResult(call.id, <<"Tool execution failed: ", "transport">>, TRUE))
      [] reply.kind = "status" /\ reply.code = 404 ->
            Returned(ToolResult(call.id, <<"Tool '", call.name, "' not found">>, TRUE))
      [] reply.kind = "status" /\ reply.code # 404 ->
            \* raise_for_status raises HTTPStatusError, an httpx.HTTPError
            Returned(ToolResult(call.id, <<"Tool execution failed: ", "status">>, TRUE))
      [] reply.kind = "malformed" -> Raised("JSONDecodeError")
      [] reply.kind = "not_object" -> Raised("AttributeError")
      [] reply.kind = "json" ->
            IF ~ExtractContent(reply).isStr
            THEN Raised("TypeError")       \* len(content) on a non-string
            ELSE Returned(ToolResult(call.id, ExtractContent(reply).text,
                                     reply.isError = "true"))

-----------------------------------------------------------------------------
(* MCPService.execute_tools *)

\* asyncio.gather(*tasks) without return_exceptions: the first exception propagates
GatherPropagating(outcomes, order) ==
    [raised |-> \E i \in DOMAIN outcomes : outcomes[i].kind = "raised",
     results |-> outcomes]

\* asyncio.gather collecting in completion order (as asyncio.as_completed would)
GatherAsCompleted(outcomes, order) ==
    [raised |-> FALSE, results |-> [k \in DOMAIN outcomes |-> outcomes[order[k]]]]

\* line 157: asyncio.gather(*tasks, return_exceptions=True): every task's outcome,
\* in the order of the arguments, whatever the order of completion
Gather(outcomes, order) ==
    [raised |-> FALSE, results |-> outcomes]

\* the exception branch labelling the result with the first call's id
FinalResultFirstId(calls, i, outcome) ==
    IF outcome.kind = "raised"
    THEN ToolResult(calls[1].id, <<"Tool execution error: ", outcome.exc>>, TRUE)
    ELSE outcome.result

\* lines 161-171: one slot of final_results
FinalResult(calls, i, outcome) ==
    IF outcome.kind = "raised"
    THEN ToolResult(calls[i].id, <<"Tool execution error: ", outcome.exc>>, TRUE)
    ELSE outcome.result

\* MCPService.__init__ (lines 20-26) and no execute_tools call yet
ToolsIdle ==
    /\ etPc = "idle"
    /\ etCalls = <<>>
    /\ taskPc = <<>>
    /\ taskReply = <<>>
    /\ taskOutcome = <<>>
    /\ completion = <<>>
    /\ requestsSent = <<>>
    /\ etResults = <<>>

\* lines 150-156: execute_tools is called; the coroutines are created
ExecuteTools(calls) ==
    /\ etPc \in {"idle", "returned"}
    /\ etCalls' = calls
    /\ completion' = <<>>
    /\ requestsSent' = <<>>
    /\ taskReply' = [i \in 1..Len(calls) |-> NoReply]
    /\ taskOutcome' = [i \in 1..Len(calls) |-> NoOutcome]
    /\ taskPc' = [i \in 1..Len(calls) |-> "created"]
    /\ IF calls = <<>>
       THEN etPc' = "returned" /\ etResults' = <<>>
       ELSE etPc' = "gathering" /\ etResults' = <<>>
    /\ UNCHANGED notTools

\* lines 81-100: a task runs to its first await (the event loop starts the
\* tasks of one gather in argument order)
TaskStart(i) ==
    /\ etPc = "gathering"
    /\ i \in DOMAIN taskPc
    /\ taskPc[i] = "created"
    /\ \A j \in 1..(i - 1) : taskPc[j] # "created"
    /\ IF ~mcpEnabled
       THEN /\ taskPc' = [taskPc EXCEPT ![i] = "done"]
            /\ taskOutcome' = [taskOutcome EXCEPT ![i] = Returned(DisabledResult(etCalls[i]))]
            /\ completion' = Append(completion, i)
            /\ UNCHANGED requestsSent
       ELSE /\ taskPc' = [taskPc EXCEPT ![i] = "posted"]
            /\ requestsSent' = Append(requestsSent, etCalls[i].name)
            /\ UNCHANGED <<taskOutcome, completion>>
    /\ UNCHANGED <<etPc, etCalls, taskReply, etResults, notTools>>

\* lines 97-148: the endpoint answers task i, which runs to its end
TaskRespond(i, reply) ==
    /\ etPc = "gathering"
    /\ i \in DOMAIN taskPc
    /\ taskPc[i] = "posted"
    /\ taskReply' = [taskReply EXCEPT ![i] = reply]
    /\ taskOutcome' = [taskOutcome EXCEPT ![i] = ExecuteToolOutcome(etCalls[i], reply)]
    /\ taskPc' = [taskPc EXCEPT ![i] = "done"]
    /\ completion' = Append(completion, i)
    /\ UNCHANGED <<etPc, etCalls, requestsSent, etResults, notTools>>

\* lines 157-173: every task is done; gather resumes execute_tools
GatherJoin ==
    /\ etPc = "gathering"
    /\ \A i \in DOMAIN taskPc : taskPc[i] = "done"
    /\ LET g == Gather(taskOutcome, completion)
       IN IF g.raised
          THEN etPc' = "raised" /\ etResults' = <<>>
          ELSE /\ etPc' = "returned"
               /\ etResults' = [i \in DOMAIN g.results |->
                                   FinalResult(etCalls, i, g.results[i])]
    /\ UNCHANGED <<etCalls, taskPc, taskReply, taskOutcome,
                   completion, requestsSent, notTools>>

ToolsNext ==
    \/ \E calls \in SeqsUpTo(ToolCalls, MaxCalls) : ExecuteTools(calls)
    \/ \E i \in 1..MaxCalls : TaskStart(i)
    \/ \E i \in 1..MaxCalls, reply \in EndpointReplies : TaskRespond(i, reply)
    \/ GatherJoin

-----------------------------------------------------------------------------
(* ProviderRegistry: the operations as actions                               *)

\* fallback_order arguments tried: the default (None), the list of the
\* documented scenario, a list with a repeated entry, and an empty list
FallbackOrders ==
    { DefaultFallbackOrder,
      <<"anthropic", "openai", "ollama">>,
      <<"openai", "gemini", "openai">>,
      <<>> }

ProbeOutcomes == {"true", "false", "raises"}

NoArgs == [preferred |-> None, order |-> <<>>]

LastOp(op, kind, key, model, res, prev) ==
    [op |-> op, kind |-> kind, key |-> key, model |-> model,
     ret |-> res.ret, raised |-> res.raised,
     cacheBefore |-> regCache, countBefore |-> regCount, prev |-> prev]

NoOp ==
    [op |-> "none", kind |-> None, key |-> None, model |-> None,
     ret |-> NoInstance, raised |-> FALSE,
     cacheBefore |-> EmptyCache, countBefore |-> 0, prev |-> NoInstance]

\* the class attribute _instances = {} (line 27) and no call made yet
RegEmpty ==
    /\ regCount = 0
    /\ regCache = EmptyCache
    /\ regLast = NoOp
    /\ gocSeen = [p \in Kinds \X CacheKeys |-> NoInstance]
    /\ hpPc = "idle"
    /\ hpTry = <<>>
    /\ hpIdx = 0
    /\ hpProbed = <<>>
    /\ hpArgs = NoArgs
    /\ hpRet = NoInstance

EffectiveKey(kind, cacheKey) == IF cacheKey = None THEN kind ELSE cacheKey

\* a call of ProviderRegistry.create_provider(kind, **kw)
RegCreate(kind, kw, ctorOk) ==
    LET res == CreateProvider(Reg(regCount, regCache), kind, kw, ctorOk)
    IN /\ res.reg.count <= MaxInstances
       /\ regCount' = res.reg.count
       /\ regCache' = res.reg.cache
       /\ regLast' = LastOp("create_provider", kind, None, kw.model, res, NoInstance)
       /\ UNCHANGED <<gocSeen, hpPc, hpTry, hpIdx, hpProbed, hpArgs, hpRet, notReg>>

\* a call of ProviderRegistry.get_or_create_provider(kind, cache_key, **kw)
RegGetOrCreate(kind, cacheKey, kw, ctorOk) ==
    LET res == GetOrCreateProvider(Reg(regCount, regCache), kind, cacheKey, kw, ctorOk)
        key == EffectiveKey(kind, cacheKey)
    IN /\ res.reg.count <= MaxInstances
       /\ regCount' = res.reg.count
       /\ regCache' = res.reg.cache
       /\ gocSeen' = IF res.raised THEN gocSeen
                     ELSE [gocSeen EXCEPT ![<<kind, key>>] = res.ret]
       /\ regLast' = LastOp("get_or_create_provider", kind, key, kw.model, res,
                            gocSeen[<<kind, key>>])
       /\ UNCHANGED <<hpPc, hpTry, hpIdx, hpProbed, hpArgs, hpRet, notReg>>

\* lines 118-121
RegClearCache ==
    /\ regCache' = EmptyCache
    /\ gocSeen' = [p \in Kinds \X CacheKeys |-> NoInstance]
    /\ regLast' = [NoOp EXCEPT !.op = "clear_cache", !.cacheBefore = regCache,
                               !.countBefore = regCount]
    /\ UNCHANGED <<regCount, hpPc, hpTry, hpIdx, hpProbed, hpArgs, hpRet, notReg>>

\* LLMService._get_provider as the first step of a request: its effect on the
\* registry, with the instance it returns in regLast'.ret
SvcResolve(name, model, ok1, ok2) ==
    LET res == ServiceGetProvider(Reg(regCount, regCache), name, model, ok1, ok2)
        kind == IF name # None THEN name ELSE DefaultProvider
    IN /\ res.reg.count <= MaxInstances
       /\ regCount' = res.reg.count
       /\ regCache' = res.reg.cache
       /\ gocSeen' = IF res.reg.cache[kind] = NoInstance THEN gocSeen
                     ELSE [gocSeen EXCEPT ![<<kind, kind>>] = res.reg.cache[kind]]
       /\ regLast' = LastOp("_get_provider", name, kind, model, res,
                            gocSeen[<<kind, kind>>])

\* a chat or stream request resolving its provider, the rest of the request
\* left out
SvcGetProvider(name, model, ok1, ok2) ==
    /\ SvcResolve(name, model, ok1, ok2)
    /\ UNCHANGED <<hpPc, hpTry, hpIdx, hpProbed, hpArgs, hpRet, notReg>>

\* lines 141-160: get_healthy_provider is called and builds providers_to_try
HealthyStart(preferred, order) ==
    /\ hpPc \in {"idle", "returned", "raised"}
    /\ hpArgs' = [preferred |-> preferred, order |-> order]
    /\ hpTry' = ProvidersToTry(preferred, order, available)
    /\ hpIdx' = 1
    /\ hpProbed' = <<>>
    /\ hpRet' = NoInstance
    /\ hpPc' = "probing"
    /\ UNCHANGED <<regCount, regCache, regLast, gocSeen, notReg>>

\* lines 163-166, 171-176: the next candidate's instance is fetched; an
\* exception of the constructor is logged and the loop goes on
HealthyTry(ctorOk) ==
    /\ hpPc = "probing"
    /\ hpIdx <= Len(hpTry)
    /\ LET kind == hpTry[hpIdx]
           res == GetOrCreateProvider(Reg(regCount, regCache), kind, None, NoKw, ctorOk)
       IN /\ regCount' = res.reg.count
          /\ regCache' = res.reg.cache
          /\ gocSeen' = IF res.raised THEN gocSeen
                        ELSE [gocSeen EXCEPT ![<<kind, kind>>] = res.ret]
          /\ regLast' = LastOp("get_or_create_provider", kind, kind, None, res,
                               gocSeen[<<kind, kind>>])
          /\ IF res.raised
             THEN /\ hpProbed' = Append(hpProbed, [kind |-> kind, outcome |-> "no_instance"])
                  /\ hpIdx' = hpIdx + 1
                  /\ UNCHANGED <<hpPc, hpRet>>
             ELSE /\ hpPc' = "awaiting"
                  /\ hpRet' = res.ret
                  /\ UNCHANGED <<hpProbed, hpIdx>>
    /\ UNCHANGED <<hpTry, hpArgs, notReg>>

\* the loop without the except clause of lines 171-176: an exception of the
\* probe leaves get_healthy_provider
HealthyProbeResultPropagates(outcome) ==
    /\ hpPc = "awaiting"
    /\ hpProbed' = Append(hpProbed, [kind |-> hpTry[hpIdx], outcome |-> outcome])
    /\ CASE outcome = "true" -> hpPc' = "returned" /\ UNCHANGED <<hpIdx, hpRet>>
         [] outcome = "raises" -> hpPc' = "raised" /\ hpRet' = NoInstance /\ UNCHANGED hpIdx
         [] OTHER -> hpPc' = "probing" /\ hpIdx' = hpIdx + 1 /\ hpRet' = NoInstance
    /\ UNCHANGED <<regCount, regCache, regLast, gocSeen, hpTry, hpArgs, notReg>>

\* lines 166-176: the awaited health_check ends
HealthyProbeResult(outcome) ==
    /\ hpPc = "awaiting"
    /\ hpProbed' = Append(hpProbed, [kind |-> hpTry[hpIdx], outcome |-> outcome])
    /\ IF outcome = "true"
       THEN hpPc' = "returned" /\ UNCHANGED <<hpIdx, hpRet>>
       ELSE hpPc' = "probing" /\ hpIdx' = hpIdx + 1 /\ hpRet' = NoInstance
    /\ UNCHANGED <<regCount, regCache, regLast, gocSeen, hpTry, hpArgs, notReg>>

\* an exhausted list answered with the default provider's cached instance
HealthyExhaustedReturnsDefault ==
    /\ hpPc = "probing"
    /\ hpIdx > Len(hpTry)
    /\ hpPc' = "returned"
    /\ hpRet' = regCache[DefaultProvider]
    /\ UNCHANGED <<regCount, regCache, regLast, gocSeen, hpTry, hpIdx, hpProbed,
                   hpArgs, notReg>>

\* lines 178-181: the list is exhausted
HealthyExhausted ==
    /\ hpPc = "probing"
    /\ hpIdx > Len(hpTry)
    /\ hpPc' = "raised"
    /\ UNCHANGED <<regCount, regCache, regLast, gocSeen, hpTry, hpIdx, hpProbed,
                   hpArgs, hpRet, notReg>>

-----------------------------------------------------------------------------
(* Provider health_check and LLMService.health_check                         *)

\* what the vendor call inside a provider's health_check can do:
\* messages.create / chat.completions.create / generate_content_async for the
\* hosted providers, client.list for Ollama
VendorOutcomes(kind) ==
    IF kind = "ollama"
    THEN {"model_listed", "model_missing", "network_error"}
    ELSE {"response", "auth_error", "network_error"}

\* the statements inside the try of health_check: anthropic.py lines 237-242,
\* openai.py lines 250-255, gemini.py lines 302-303, ollama.py lines 245-259
\* (the test "self.model in name" raises TypeError when model is None)
HealthCheckBody(inst, vendor) ==
    IF inst.kind = "ollama"
    THEN CASE vendor = "network_error" -> [raised |-> TRUE, value |-> FALSE]
           [] vendor = "model_missing" -> [raised |-> FALSE, value |-> FALSE]
           [] vendor = "model_listed" ->
                IF inst.model = None THEN [raised |-> TRUE, value |-> FALSE]
                ELSE [raised |-> FALSE, value |-> TRUE]
    ELSE IF vendor = "response" THEN [raised |-> FALSE, value |-> TRUE]
         ELSE [raised |-> TRUE, value |-> FALSE]

\* a health_check without its "except Exception"
ProviderHealthCheckUncaught(inst, vendor) == HealthCheckBody(inst, vendor)

\* health_check of the four providers: anthropic.py lines 233-245, openai.py
\* lines 247-258, ollama.py lines 241-262, gemini.py lines 299-306
ProviderHealthCheck(inst, vendor) ==
    LET body == HealthCheckBody(inst, vendor)
    IN IF body.raised THEN [raised |-> FALSE, value |-> FALSE] ELSE body

\* values of the dict health_check returns
BoolValue(b) == [type |-> "bool", bool |-> b, text |-> <<>>]
StrValue(t) == [type |-> "str", bool |-> FALSE, text |-> t]

\* results[key] = value
SetItem(results, key, value) ==
    {e \in results : e.key # key} \cup {[key |-> key, value |-> value]}

\* llm_service.py lines 347-349 and 356-358
RecordFailure(results, name) ==
    SetItem(SetItem(results, <<name>>, BoolValue(FALSE)),
            <<name, "_error">>, StrValue(<<"str(e)">>))

\* get_available_providers (config.py lines 165-179), in its order
AvailableList ==
    LET IsAvailable(p) == p \in available
    IN SelectSeq(DefaultFallbackOrder, IsAvailable)

\* a provider name no LLMProvider member has
UnknownProvider == "bogus"

\* no health_check call yet
ServiceHealthIdle ==
    /\ shPc = "idle"
    /\ shName = None
    /\ shTodo = <<>>
    /\ shResults = {}
    /\ shProbes = <<>>

\* lines 338-342, 352: health_check is called
ServiceHealthStart(name) ==
    /\ shPc \in {"idle", "returned"}
    /\ shPc' = "checking"
    /\ shName' = name
    /\ shTodo' = IF name # None THEN <<name>> ELSE AvailableList
    /\ shResults' = {}
    /\ shProbes' = <<>>
    /\ UNCHANGED <<cfgVars, regVars, toolVars, chatVars, streamVars, extVars>>

\* lines 344-349 and 353-358: one provider is fetched and probed
ServiceHealthProbe(ctorOk, vendor) ==
    /\ shPc = "checking"
    /\ shTodo # <<>>
    /\ LET name == Head(shTodo)
           reg == Reg(regCount, regCache)
           res == IF name \notin Kinds
                  THEN [reg |-> reg, ret |-> NoInstance, raised |-> TRUE]
                  ELSE IF shName # None
                       THEN ServiceGetProvider(reg, name, None, ctorOk, TRUE)
                       ELSE GetOrCreateProvider(reg, name, None, NoKw, ctorOk)
           probe == IF res.raised THEN [raised |-> TRUE, value |-> FALSE]
                    ELSE ProviderHealthCheck(res.ret, vendor)
       IN /\ name \in Kinds => vendor \in VendorOutcomes(name)
          /\ name \notin Kinds => vendor = "network_error"
          /\ regCount' = res.reg.count
          /\ regCache' = res.reg.cache
          /\ gocSeen' = IF res.raised THEN gocSeen
                        ELSE [gocSeen EXCEPT ![<<name, name>>] = res.ret]
          /\ regLast' = LastOp("get_or_create_provider", name, name, None, res,
                               IF name \in Kinds THEN gocSeen[<<name, name>>]
                               ELSE NoInstance)
          /\ shProbes' = IF res.raised THEN shProbes
                         ELSE Append(shProbes, [kind |-> name, vendor |-> vendor,
                                                model |-> res.ret.model,
                                                raised |-> probe.raised,
                                                value |-> probe.value])
          /\ shResults' = IF probe.raised THEN RecordFailure(shResults, name)
                          ELSE SetItem(shResults, <<name>>, BoolValue(probe.value))
    /\ shTodo' = Tail(shTodo)
    /\ UNCHANGED <<shPc, shName>>
    /\ UNCHANGED <<hpPc, hpTry, hpIdx, hpProbed, hpArgs, hpRet>>
    /\ UNCHANGED <<cfgVars, toolVars, chatVars, streamVars, extVars>>

\* line 360
ServiceHealthReturn ==
    /\ shPc = "checking"
    /\ shTodo = <<>>
    /\ shPc' = "returned"
    /\ UNCHANGED <<shName, shTodo, shResults, shProbes>>
    /\ UNCHANGED <<cfgVars, regVars, toolVars, chatVars, streamVars, extVars>>

-----------------------------------------------------------------------------
(* Messages and provider responses (app/models/llm.py) *)

\* ChatMessage; tool_calls None and tool_call_id None are <<>> and "None"
Msg(role, content, toolCalls, toolCallId) ==
    [role |-> role, content |-> content, tool_calls |-> toolCalls,
     tool_call_id |-> toolCallId]

\* LLMResponse (content, tool_calls, finish_reason)
Response(content, toolCalls, finish) ==
    [content |-> content, tool_calls |-> toolCalls, finish_reason |-> finish]

NoResponse == Response(<<>>, <<>>, "none")

Call1 == ToolCall("call_1", "lookup")
Call2 == ToolCall("call_2", "ping")

\* what provider.chat can return: a plain answer, tool requests with one and
\* two calls, tool calls under another finish reason, finish_reason
\* tool_calls without any call, and a truncated answer
ChatResponses ==
    { Response(<<"answer">>, <<>>, "stop"),
      Response(<<>>, <<Call1>>, "tool_calls"),
      Response(<<"checking">>, <<Call1, Call2>>, "tool_calls"),
      Response(<<"partial">>, <<Call2>>, "stop"),
      Response(<<>>, <<>>, "tool_calls"),
      Response(<<"cut">>, <<>>, "length") }

\* the endpoint replies drawn while a request executes a batch
RequestReplies == {JsonBody("str", <<"ok">>, "absent"), [kind |-> "malformed"]}

\* the history arguments tried
Histories ==
    { <<>>,
      << [role |-> "user", content |-> <<"earlier question">>],
         [role |-> "assistant", content |-> <<"earlier answer">>] >> }

\* the context kept on the service: the messages of the invocation before are
\* still there and the history argument is ignored
BuildMessagesKeepingContext(message, history) ==
    chatMessages \o streamMessages \o <<Msg("user", message, <<>>, None)>>

\* llm_service.py lines 53-91, called without tool_results
BuildMessages(message, history) ==
    [i \in 1..Len(history) |-> Msg(history[i].role, history[i].content, <<>>, None)]
        \o <<Msg("user", message, <<>>, None)>>

\* llm_service.py lines 171-177 and 291-297
AssistantToolMessage(content, toolCalls) == Msg("assistant", content, toolCalls, None)

\* tool messages built without the tool_call_id of their result
ToolMessagesNoId(results) ==
    [i \in 1..Len(results) |-> Msg("tool", results[i].content, <<>>, None)]

\* tool messages that all carry the tool_call_id of the first result
ToolMessagesFirstId(results) ==
    [i \in 1..Len(results) |->
        Msg("tool", results[i].content, <<>>, results[1].tool_call_id)]

\* llm_service.py lines 194-201 and 313-320
ToolMessages(results) ==
    [i \in 1..Len(results) |->
        Msg("tool", results[i].content, <<>>, results[i].tool_call_id)]

\* llm_service.py lines 184-191 and 303-310: no gateway configured
UnavailableResults(toolCalls) ==
    [i \in 1..Len(toolCalls) |->
        ToolResult(toolCalls[i].id, <<"Tool execution not available">>, TRUE)]

\* an execute_tools that leaves the failed calls out of its result
ExecuteToolsResultDropFailed(calls, replies, enabled) ==
    IF calls = <<>> THEN <<>>
    ELSE LET outcomes == [i \in 1..Len(calls) |->
                             IF enabled THEN ExecuteToolOutcome(calls[i], replies[i])
                             ELSE Returned(DisabledResult(calls[i]))]
             g == Gather(outcomes, [i \in 1..Len(calls) |-> i])
             IsOk(r) == ~r.is_error
         IN SelectSeq([i \in 1..Len(calls) |-> FinalResult(calls, i, g.results[i])], IsOk)

\* MCPService.execute_tools as one step of a request: what the awaited call
\* returns when the endpoint answers call i with replies[i]
ExecuteToolsResult(calls, replies, enabled) ==
    IF calls = <<>> THEN <<>>
    ELSE LET outcomes == [i \in 1..Len(calls) |->
                             IF enabled THEN ExecuteToolOutcome(calls[i], replies[i])
                             ELSE Returned(DisabledResult(calls[i]))]
             g == Gather(outcomes, [i \in 1..Len(calls) |-> i])
         IN [i \in 1..Len(calls) |-> FinalResult(calls, i, g.results[i])]

\* the test of line 153 with "and" in place of "or"
IsFinalResponseBoth(resp) ==
    resp.tool_calls = <<>> /\ resp.finish_reason # "tool_calls"

\* llm_service.py line 153
IsFinalResponse(resp) ==
    resp.tool_calls = <<>> \/ resp.finish_reason # "tool_calls"

-----------------------------------------------------------------------------
(* LLMService.chat *)

NoChatArgs ==
    [message |-> <<>>, history |-> <<>>, provider_name |-> None, model |-> None,
     use_tools |-> FALSE]

\* LLMService.__init__ (lines 21-28) and no chat request yet
ChatIdle ==
    /\ chatPc = "idle"
    /\ chatArgs = NoChatArgs
    /\ chatProvider = NoInstance
    /\ chatTools = None
    /\ chatMessages = <<>>
    /\ iterations = 0
    /\ chatResponses = <<>>
    /\ chatReturn = NoResponse
    /\ chatError = "none"
    /\ chatCallLog = <<>>
    /\ gatewayCalls = <<>>
    /\ chatToolResults = <<>>
    /\ chatRaisedAt = 0

\* lines 127-129 and 241-243: the tools handed to the provider, or None
ToolsFor(useTools) ==
    IF useTools /\ hasMcp /\ mcpEnabled THEN "tools" ELSE None

\* the loop test of line 142 letting one more round through
ChatContinueOffByOne(msgs, iters, log, provider, tools) ==
    IF iters <= maxIter
    THEN /\ iterations' = iters + 1
         /\ chatCallLog' = Append(log, [provider |-> provider, tools |-> tools,
                                        context |-> msgs])
         /\ chatPc' = "awaiting_model"
         /\ chatError' = "none"
    ELSE /\ iterations' = iters
         /\ chatCallLog' = log
         /\ chatPc' = "raised"
         /\ chatError' = "max_tool_iterations"

\* lines 142-150 and 203-208: the head of the while loop, reached from the
\* start of chat and from the end of every tool round: either the next
\* provider.chat call is awaited or the loop is left and LLMError is raised
ChatContinue(msgs, iters, log, provider, tools) ==
    IF iters < maxIter
    THEN /\ iterations' = iters + 1
         /\ chatCallLog' = Append(log, [provider |-> provider, tools |-> tools,
                                        context |-> msgs])
         /\ chatPc' = "awaiting_model"
         /\ chatError' = "none"
    ELSE /\ iterations' = iters
         /\ chatCallLog' = log
         /\ chatPc' = "raised"
         /\ chatError' = "max_tool_iterations"

\* lines 124-150: chat is called; the provider is resolved, the tools and the
\* first context are built and the loop is entered
ChatStart(args, ok1, ok2) ==
    /\ chatPc \in {"idle", "returned", "raised"}
    /\ SvcResolve(args.provider_name, args.model, ok1, ok2)
    /\ chatArgs' = args
    /\ chatProvider' = regLast'.ret
    /\ chatResponses' = <<>>
    /\ chatReturn' = NoResponse
    /\ gatewayCalls' = <<>>
    /\ chatToolResults' = <<>>
    /\ chatRaisedAt' = 0
    /\ IF regLast'.raised
       THEN /\ chatPc' = "raised"
            /\ chatError' = "construction"
            /\ chatTools' = None
            /\ chatMessages' = <<>>
            /\ iterations' = 0
            /\ chatCallLog' = <<>>
       ELSE /\ chatTools' = ToolsFor(args.use_tools)
            /\ chatMessages' = BuildMessages(args.message, args.history)
            /\ ChatContinue(BuildMessages(args.message, args.history), 0, <<>>,
                            regLast'.ret.id, ToolsFor(args.use_tools))
    /\ UNCHANGED <<hpPc, hpTry, hpIdx, hpProbed, hpArgs, hpRet>>
    /\ UNCHANGED notRegChat

\* lines 145-191: provider.chat returns resp
ChatProviderReturns(resp) ==
    /\ chatPc = "awaiting_model"
    /\ chatResponses' = Append(chatResponses, resp)
    /\ IF IsFinalResponse(resp)
       THEN /\ chatPc' = "returned"
            /\ chatReturn' = resp
            /\ UNCHANGED <<chatMessages, iterations, chatCallLog, gatewayCalls, chatError,
                           chatToolResults>>
       ELSE IF hasMcp
            THEN /\ chatMessages' = Append(chatMessages,
                                       AssistantToolMessage(resp.content, resp.tool_calls))
                 /\ gatewayCalls' = Append(gatewayCalls, resp.tool_calls)
                 /\ chatPc' = "executing_tools"
                 /\ UNCHANGED <<chatReturn, iterations, chatCallLog, chatError,
                                chatToolResults>>
            ELSE LET msgs == Append(chatMessages,
                                 AssistantToolMessage(resp.content, resp.tool_calls))
                               \o ToolMessages(UnavailableResults(resp.tool_calls))
                 IN /\ chatMessages' = msgs
                    /\ chatToolResults' = Append(chatToolResults,
                                                 UnavailableResults(resp.tool_calls))
                    /\ ChatContinue(msgs, iterations, chatCallLog, chatProvider.id, chatTools)
                    /\ UNCHANGED <<chatReturn, gatewayCalls>>
    /\ UNCHANGED <<chatArgs, chatProvider, chatTools, chatRaisedAt>>
    /\ UNCHANGED notChat

\* a chat that catches the provider's exception and calls the provider again
ChatProviderRaisesRetry ==
    /\ chatPc = "awaiting_model"
    /\ chatRaisedAt' = Len(chatCallLog)
    /\ chatCallLog' = Append(chatCallLog, chatCallLog[Len(chatCallLog)])
    /\ UNCHANGED <<chatPc, chatError, chatArgs, chatProvider, chatTools, chatMessages,
                   iterations, chatResponses, chatReturn, gatewayCalls, chatToolResults>>
    /\ UNCHANGED notChat

\* a chat that answers the provider's exception by switching to another
\* provider instance and sending the round there
ChatProviderRaisesFallsBack ==
    /\ chatPc = "awaiting_model"
    /\ chatRaisedAt' = Len(chatCallLog)
    /\ chatProvider' = Instance(chatProvider.id + 1, chatProvider.kind, chatProvider.model)
    /\ chatCallLog' = Append(chatCallLog,
                             [chatCallLog[Len(chatCallLog)] EXCEPT
                                 !.provider = chatProvider.id + 1])
    /\ UNCHANGED <<chatPc, chatError, chatArgs, chatTools, chatMessages,
                   iterations, chatResponses, chatReturn, gatewayCalls, chatToolResults>>
    /\ UNCHANGED notChat

\* line 145: provider.chat raises; chat has no handler
ChatProviderRaises ==
    /\ chatPc = "awaiting_model"
    /\ chatPc' = "raised"
    /\ chatError' = "provider"
    /\ chatRaisedAt' = Len(chatCallLog)
    /\ UNCHANGED <<chatArgs, chatProvider, chatTools, chatMessages, iterations,
                   chatResponses, chatReturn, chatCallLog, gatewayCalls, chatToolResults>>
    /\ UNCHANGED notChat

\* lines 181, 194-201, then the loop head: execute_tools returns
ChatToolsReturn(replies) ==
    /\ chatPc = "executing_tools"
    /\ LET calls == gatewayCalls[Len(gatewayCalls)]
           results == ExecuteToolsResult(calls, replies, mcpEnabled)
           msgs == chatMessages \o ToolMessages(results)
       IN /\ DOMAIN replies = 1..Len(calls)
          /\ chatMessages' = msgs
          /\ chatToolResults' = Append(chatToolResults, results)
          /\ ChatContinue(msgs, iterations, chatCallLog, chatProvider.id, chatTools)
    /\ UNCHANGED <<chatArgs, chatProvider, chatTools, chatResponses, chatReturn,
                   gatewayCalls, chatRaisedAt>>
    /\ UNCHANGED notChat

\* the requests tried: the default provider, and openai with a model override
ChatArgSets ==
    { [message |-> <<"hi">>, history |-> h, provider_name |-> pm[1], model |-> pm[2],
       use_tools |-> u] :
      h \in Histories, pm \in {<<None, None>>, <<"openai", CustomModel>>}, u \in BOOLEAN }

ChatNext ==
    \/ \E args \in ChatArgSets, ok1 \in BOOLEAN, ok2 \in BOOLEAN : ChatStart(args, ok1, ok2)
    \/ \E resp \in ChatResponses : ChatProviderReturns(resp)
    \/ ChatProviderRaises
    \/ \E n \in 1..2 : \E replies \in [1..n -> RequestReplies] : ChatToolsReturn(replies)


-----------------------------------------------------------------------------
(* LLMService.stream *)

\* StreamChunk (app/models/llm.py lines 183-189); content None is <<>>
Chunk(content, toolCalls, done, finish) ==
    [content |-> content, tool_calls |-> toolCalls, done |-> done,
     finish_reason |-> finish]

ContentChunk(text) == Chunk(text, <<>>, FALSE, None)
ToolChunk(calls) == Chunk(<<>>, calls, FALSE, None)
DoneChunk(finish) == Chunk(<<>>, <<>>, TRUE, finish)

\* llm_service.py line 323
MarkerChunk == ContentChunk(<<"\n\n[Processing tool results...]\n\n">>)

\* the entry logged when the provider's stream raises instead of yielding
RaisedChunk == Chunk(<<>>, <<>>, FALSE, "raised")

\* the chunks a provider's stream() yields before its terminal chunk
ProviderChunks ==
    { ContentChunk(<<"Hel">>), ContentChunk(<<"lo">>),
      ToolChunk(<<Call1>>), ToolChunk(<<Call2>>) }

\* the finish_reason of the terminal chunk each provider's stream() yields:
\* anthropic.py line 214, gemini.py line 278, openai.py lines 225-228,
\* ollama.py lines 219-225 (emitted: tool calls were yielded in this stream)
ProviderFinishReasons(kind, emitted) ==
    CASE kind = "anthropic" -> {"stop"}
      [] kind = "gemini" -> {"stop"}
      [] kind = "openai" -> {"stop", "tool_calls"}
      [] kind = "ollama" -> IF emitted THEN {"tool_calls"} ELSE {"stop", "length"}

\* openai.py lines 207-228 and ollama.py lines 198-225 yield the tool calls
\* right before the terminal chunk; anthropic.py and gemini.py yield them as
\* the vendor closes each invocation
ToolCallsOnlyAtFinish(kind) == kind \in {"openai", "ollama"}

\* gemini.py line 278 yields the terminal chunk after the vendor stream ends;
\* the other three yield it on a vendor event that may not come
AlwaysYieldsDone(kind) == kind = "gemini"

NoStreamArgs == NoChatArgs

\* no stream request yet
StreamIdle ==
    /\ streamPc = "idle"
    /\ streamArgs = NoStreamArgs
    /\ streamProvider = NoInstance
    /\ streamTools = None
    /\ streamMessages = <<>>
    /\ streamIter = 0
    /\ accCalls = <<>>
    /\ accContent = <<>>
    /\ roundDone = FALSE
    /\ roundChunks = 0
    /\ delivered = <<>>
    /\ streamRounds = <<>>
    /\ streamGateway = <<>>
    /\ streamExit = "none"
    /\ streamError = "none"
    /\ allRoundsDone = TRUE
    /\ toolRounds = 0
    /\ streamToolResults = <<>>
    /\ provided = <<>>
    /\ netStream = "none"

\* the head of the loop without lines 257-258: the buffers of the round before
\* are carried into the next round
StreamContinueNoReset(msgs, iters, log, provider, tools, calls, content) ==
    IF iters < maxIter
    THEN /\ streamIter' = iters + 1
         /\ accCalls' = calls
         /\ accContent' = content
         /\ roundDone' = FALSE
         /\ roundChunks' = (IF iters = 0 THEN 0 ELSE roundChunks)
         /\ streamRounds' = Append(log, [provider |-> provider, tools |-> tools,
                                         context |-> msgs])
         /\ streamPc' = "streaming"
         /\ streamExit' = "none"
         /\ netStream' = "acquired"
    ELSE /\ streamIter' = iters
         /\ accCalls' = calls
         /\ accContent' = content
         /\ roundDone' = roundDone
         /\ roundChunks' = roundChunks
         /\ streamRounds' = log
         /\ streamPc' = "ended"
         /\ streamExit' = "max_iterations"
         /\ netStream' = (IF iters = 0 THEN "none" ELSE "released")

\* lines 256-266 and 328: the head of the while loop: the next provider.stream
\* is opened with empty buffers, or the loop is left, a warning is logged and
\* the generator ends
StreamContinue(msgs, iters, log, provider, tools, calls, content) ==
    IF iters < maxIter
    THEN /\ streamIter' = iters + 1
         /\ accCalls' = <<>>
         /\ accContent' = <<>>
         /\ roundDone' = FALSE
         /\ roundChunks' = (IF iters = 0 THEN 0 ELSE roundChunks)
         /\ streamRounds' = Append(log, [provider |-> provider, tools |-> tools,
                                         context |-> msgs])
         /\ streamPc' = "streaming"
         /\ streamExit' = "none"
         /\ netStream' = "acquired"
    ELSE /\ streamIter' = iters
         /\ accCalls' = calls
         /\ accContent' = content
         /\ roundDone' = roundDone
         /\ roundChunks' = roundChunks
         /\ streamRounds' = log
         /\ streamPc' = "ended"
         /\ streamExit' = "max_iterations"
         /\ netStream' = (IF iters = 0 THEN "none" ELSE "released")

\* lines 238-266: the generator is started
StreamStart(args, ok1, ok2) ==
    /\ streamPc \in {"idle", "ended", "raised", "closed"}
    /\ SvcResolve(args.provider_name, args.model, ok1, ok2)
    /\ streamArgs' = args
    /\ streamProvider' = regLast'.ret
    /\ delivered' = <<>>
    /\ streamGateway' = <<>>
    /\ allRoundsDone' = TRUE
    /\ toolRounds' = 0
    /\ streamToolResults' = <<>>
    /\ provided' = <<>>
    /\ IF regLast'.raised
       THEN /\ streamPc' = "raised"
            /\ streamError' = "construction"
            /\ streamExit' = "none"
            /\ streamTools' = None
            /\ streamMessages' = <<>>
            /\ streamIter' = 0
            /\ accCalls' = <<>>
            /\ accContent' = <<>>
            /\ roundDone' = FALSE
            /\ roundChunks' = 0
            /\ streamRounds' = <<>>
            /\ netStream' = "none"
       ELSE /\ streamError' = "none"
            /\ streamTools' = ToolsFor(args.use_tools)
            /\ streamMessages' = BuildMessages(args.message, args.history)
            /\ StreamContinue(BuildMessages(args.message, args.history), 0, <<>>,
                              regLast'.ret.id, ToolsFor(args.use_tools), <<>>, <<>>)
    /\ UNCHANGED <<hpPc, hpTry, hpIdx, hpProbed, hpArgs, hpRet>>
    /\ UNCHANGED <<cfgVars, toolVars, chatVars, svcHealthVars, extVars>>

\* a chunk with content put in front of what was already yielded
ForwardContentInFront(out, chunk) ==
    IF chunk.content # <<>> THEN <<chunk>> \o out ELSE out

\* only the first chunk with content is yielded
ForwardContentFirstOnly(out, chunk) ==
    IF chunk.content # <<>> /\ out = <<>> THEN Append(out, chunk) ELSE out

\* lines 268-270: a chunk with content is yielded to the consumer as it comes
ForwardContent(out, chunk) ==
    IF chunk.content # <<>> THEN Append(out, chunk) ELSE out

\* lines 261-281: the body of the async for, for one chunk of the provider
StreamChunkArrives(chunk) ==
    /\ streamPc = "streaming"
    /\ LET shown == ForwardContent(delivered, chunk)
           calls == accCalls \o chunk.tool_calls
       IN /\ accContent' = accContent \o chunk.content
          /\ accCalls' = calls
          /\ provided' = Append(provided, chunk)
          /\ roundChunks' = roundChunks + 1
          /\ IF chunk.done /\ (calls = <<>> \/ chunk.finish_reason # "tool_calls")
             THEN /\ delivered' = Append(shown, chunk)
                  /\ streamPc' = "ended"
                  /\ streamExit' = "terminal_chunk"
                  /\ roundDone' = TRUE
             ELSE /\ delivered' = shown
                  /\ roundDone' = (roundDone \/ chunk.done)
                  /\ UNCHANGED <<streamPc, streamExit>>
    /\ UNCHANGED <<streamArgs, streamProvider, streamTools, streamMessages, streamIter,
                   streamRounds, streamGateway, streamError, allRoundsDone, toolRounds,
                   streamToolResults, netStream>>
    /\ UNCHANGED notStream

\* a chunk the provider yields before its terminal chunk
StreamData(chunk) ==
    /\ streamPc = "streaming"
    /\ ~roundDone
    /\ roundChunks < MaxChunks
    /\ ToolCallsOnlyAtFinish(streamProvider.kind) => accCalls = <<>>
    /\ StreamChunkArrives(chunk)

\* the provider's terminal chunk
StreamDone(finish) ==
    /\ streamPc = "streaming"
    /\ ~roundDone
    /\ finish \in ProviderFinishReasons(streamProvider.kind, accCalls # <<>>)
    /\ StreamChunkArrives(DoneChunk(finish))

\* lines 283-326: the provider's stream is exhausted
StreamProviderEnds ==
    /\ streamPc = "streaming"
    /\ roundDone \/ ~AlwaysYieldsDone(streamProvider.kind)
    /\ roundDone \/ ~(ToolCallsOnlyAtFinish(streamProvider.kind) /\ accCalls # <<>>)
    /\ allRoundsDone' = (allRoundsDone /\ roundDone)
    /\ IF accCalls = <<>>
       THEN /\ streamPc' = "ended"
            /\ streamExit' = "break"
            /\ netStream' = "released"
            /\ UNCHANGED <<streamMessages, streamIter, accCalls, accContent, roundDone,
                           roundChunks, delivered, streamRounds, streamGateway, toolRounds,
                           streamToolResults>>
       ELSE IF hasMcp
            THEN /\ streamMessages' = Append(streamMessages,
                                         AssistantToolMessage(accContent, accCalls))
                 /\ streamGateway' = Append(streamGateway, accCalls)
                 /\ streamPc' = "executing_tools"
                 /\ netStream' = "released"
                 /\ UNCHANGED <<streamIter, accCalls, accContent, roundDone, roundChunks,
                                delivered, streamRounds, streamExit, toolRounds,
                                streamToolResults>>
            ELSE LET msgs == Append(streamMessages,
                                 AssistantToolMessage(accContent, accCalls))
                               \o ToolMessages(UnavailableResults(accCalls))
                 IN /\ streamMessages' = msgs
                    /\ streamToolResults' = Append(streamToolResults,
                                                   UnavailableResults(accCalls))
                    /\ delivered' = Append(delivered, MarkerChunk)
                    /\ toolRounds' = toolRounds + 1
                    /\ StreamContinue(msgs, streamIter, streamRounds, streamProvider.id,
                                      streamTools, accCalls, accContent)
                    /\ UNCHANGED streamGateway
    /\ UNCHANGED <<streamArgs, streamProvider, streamTools, streamError, provided>>
    /\ UNCHANGED notStream

\* line 261: provider.stream raises; stream has no handler
StreamProviderRaises ==
    /\ streamPc = "streaming"
    /\ streamPc' = "raised"
    /\ streamError' = "provider"
    /\ netStream' = "released"
    /\ provided' = Append(provided, RaisedChunk)
    /\ UNCHANGED <<streamArgs, streamProvider, streamTools, streamMessages, streamIter,
                   accCalls, accContent, roundDone, roundChunks, delivered, streamRounds,
                   streamGateway, streamExit, allRoundsDone, toolRounds,
                   streamToolResults>>
    /\ UNCHANGED notStream

\* lines 301, 313-323, then the loop head: execute_tools returns
StreamToolsReturn(replies) ==
    /\ streamPc = "executing_tools"
    /\ DOMAIN replies = 1..Len(accCalls)
    /\ LET results == ExecuteToolsResult(accCalls, replies, mcpEnabled)
           msgs == streamMessages \o ToolMessages(results)
       IN /\ streamMessages' = msgs
          /\ streamToolResults' = Append(streamToolResults, results)
          /\ delivered' = Append(delivered, MarkerChunk)
          /\ toolRounds' = toolRounds + 1
          /\ StreamContinue(msgs, streamIter, streamRounds, streamProvider.id,
                            streamTools, accCalls, accContent)
    /\ UNCHANGED <<streamArgs, streamProvider, streamTools, streamGateway, streamError,
                   allRoundsDone, provided>>
    /\ UNCHANGED notStream

\* line 270: the consumer stops iterating while the generator is suspended at
\* the yield of a content chunk; GeneratorExit is raised there and stream has
\* no try/finally or aclose around the provider's generator
StreamConsumerStops ==
    /\ streamPc = "streaming"
    /\ provided # <<>>
    /\ provided[Len(provided)].content # <<>>
    /\ delivered # <<>>
    /\ delivered[Len(delivered)] = provided[Len(provided)]
    /\ streamPc' = "closed"
    /\ streamExit' = "consumer_closed"
    /\ UNCHANGED <<streamArgs, streamProvider, streamTools, streamMessages, streamIter,
                   accCalls, accContent, roundDone, roundChunks, delivered, streamRounds,
                   streamGateway, streamError, allRoundsDone, toolRounds,
                   streamToolResults, provided, netStream>>
    /\ UNCHANGED notStream

\* lines 261-281: the provider's generator was left suspended at a yield when
\* the request ended (the return of line 281, or the consumer stopping); it
\* is closed, and its network stream released, only when the event loop runs
\* the finalizer of the abandoned generator
StreamFinalize ==
    /\ streamPc \in {"ended", "closed"}
    /\ netStream = "acquired"
    /\ netStream' = "released"
    /\ UNCHANGED <<streamPc, streamArgs, streamProvider, streamTools, streamMessages,
                   streamIter, accCalls, accContent, roundDone, roundChunks, delivered,
                   streamRounds, streamGateway, streamExit, streamError, allRoundsDone,
                   toolRounds, streamToolResults, provided>>
    /\ UNCHANGED notStream

\* the requests tried: the default provider (anthropic), and openai with a
\* model override
StreamArgSets ==
    { [message |-> <<"hi">>, history |-> <<>>, provider_name |-> pm[1], model |-> pm[2],
       use_tools |-> u] :
      pm \in {<<None, None>>, <<"openai", CustomModel>>}, u \in BOOLEAN }

StreamNext ==
    \/ \E args \in StreamArgSets, ok1 \in BOOLEAN, ok2 \in BOOLEAN :
          StreamStart(args, ok1, ok2)
    \/ \E chunk \in ProviderChunks : StreamData(chunk)
    \/ \E finish \in {"stop", "tool_calls", "length"} : StreamDone(finish)
    \/ StreamProviderEnds
    \/ StreamProviderRaises
    \/ \E n \in 1..MaxChunks : \E replies \in [1..n -> RequestReplies] :
          StreamToolsReturn(replies)
    \/ StreamConsumerStops
    \/ StreamFinalize

-----------------------------------------------------------------------------
(* Concurrent requests resolving their provider                              *)
(* A request is a coroutine on the one event loop and runs uninterrupted up   *)
(* to its next await. get_or_create_provider and create_provider are plain    *)
(* functions without an await (registry.py 36-116), so one call is one step;  *)
(* the requests interleave at the provider call each of them awaits next.     *)

\* most requests in flight at once
MaxRequests == 3

Requests == 1..MaxRequests

ConcurrentIdle ==
    /\ reqPc = [r \in Requests |-> "new"]
    /\ reqKey = [r \in Requests |-> None]
    /\ reqGot = [r \in Requests |-> NoInstance]
    /\ ctorCount = [k \in CacheKeys |-> 0]

\* request r calls get_or_create_provider(kind, cache_key, **kw) and goes on
\* to await the provider
ReqGetOrCreate(r, kind, cacheKey, kw, ctorOk) ==
    LET res == GetOrCreateProvider(Reg(regCount, regCache), kind, cacheKey, kw, ctorOk)
        key == EffectiveKey(kind, cacheKey)
    IN /\ reqPc[r] = "new"
       /\ res.reg.count <= MaxInstances
       /\ regCount' = res.reg.count
       /\ regCache' = res.reg.cache
       /\ gocSeen' = IF res.raised THEN gocSeen
                     ELSE [gocSeen EXCEPT ![<<kind, key>>] = res.ret]
       /\ regLast' = LastOp("get_or_create_provider", kind, key, kw.model, res,
                            gocSeen[<<kind, key>>])
       /\ reqPc' = [reqPc EXCEPT ![r] = IF res.raised THEN "failed" ELSE "awaiting"]
       /\ reqKey' = [reqKey EXCEPT ![r] = key]
       /\ reqGot' = [reqGot EXCEPT ![r] = res.ret]
       /\ ctorCount' = [ctorCount EXCEPT
                           ![key] = @ + (res.reg.count - regCount)]
       /\ UNCHANGED <<hpPc, hpTry, hpIdx, hpProbed, hpArgs, hpRet>>
       /\ UNCHANGED <<cfgVars, toolVars, chatVars, streamVars, svcHealthVars, provVars,
                       fmtVars, schemaVars>>

\* the provider call request r awaited completes and the request ends
ReqProviderReturns(r) ==
    /\ reqPc[r] = "awaiting"
    /\ reqPc' = [reqPc EXCEPT ![r] = "done"]
    /\ UNCHANGED <<reqKey, reqGot, ctorCount>>
    /\ UNCHANGED <<cfgVars, regVars, toolVars, chatVars, streamVars, svcHealthVars, provVars,
                   fmtVars, schemaVars>>

ConcurrentNext ==
    \/ \E r \in Requests, kind \in RegKinds, key \in {None, "shared"},
          kw \in {NoKw, ModelKw(CustomModel)}, ok \in BOOLEAN :
          ReqGetOrCreate(r, kind, key, kw, ok)
    \/ \E r \in Requests : ReqProviderReturns(r)

-----------------------------------------------------------------------------
(* Provider streams: what the stream() of each provider yields for the       *)
(* events of its vendor's stream (app/providers/anthropic.py, openai.py,     *)
(* ollama.py, gemini.py). Ids are tuples so that a formatted id such as      *)
(* f"call_{name}" is computed: <<"call_", name>>.                            *)

\* most vendor events in one stream
MaxEvents == 4

\* most tool invocations the model makes in one response
MaxInvocations == 2

ToolNames == {"lookup", "ping"}

\* ToolCall (app/models/llm.py): id, name, arguments
ToolCallWithArgs(id, name, arguments) ==
    [id |-> id, name |-> name, arguments |-> arguments]

\* the dict {} and the dicts a vendor or json.loads can give: the keys, in order
EmptyArguments == <<>>
ArgumentValues == {<<>>, <<"k">>}

\* pieces of argument text a vendor delivers
ArgFragments == {<<"{">>, <<"k", "}">>, <<"}">>}

\* json.loads on the text of an object: "{}" and "{k}" are valid JSON
JsonLoads(text) ==
    LET n == Len(text)
        inner == IF n >= 2 THEN SubSeq(text, 2, n - 1) ELSE <<>>
    IN IF n >= 2 /\ text[1] = "{" /\ text[n] = "}" /\ inner \in ArgumentValues
       THEN [ok |-> TRUE, value |-> inner]
       ELSE [ok |-> FALSE, value |-> <<>>]

\* json.loads without the except clause: JSONDecodeError leaves the generator
LoadArgumentsUncaught(text) ==
    [raised |-> ~JsonLoads(text).ok, arguments |-> JsonLoads(text).value]

\* anthropic.py 198-201, openai.py 212-215, ollama.py 206-209
LoadArguments(text) ==
    [raised |-> FALSE,
     arguments |-> IF JsonLoads(text).ok THEN JsonLoads(text).value ELSE EmptyArguments]

\* the fragment put in front of the text accumulated so far
AccumulateInFront(text, fragment) == fragment \o text

\* anthropic.py 194, openai.py 203: arguments += fragment
Accumulate(text, fragment) == text \o fragment

\* a tool call being accumulated; isStr: its arguments are text still to parse
Pending(key, id, name, isStr, arguments) ==
    [key |-> key, id |-> id, name |-> name, isStr |-> isStr, arguments |-> arguments]

HasKey(acc, key) == \E i \in DOMAIN acc : acc[i].key = key

AccumulateAt(acc, key, fragment) ==
    [i \in DOMAIN acc |->
        IF acc[i].key = key
        THEN [acc[i] EXCEPT !.arguments = Accumulate(@, fragment)]
        ELSE acc[i]]

\* the ToolCalls built from the accumulated calls, in their order
RECURSIVE ParsedCalls(_)
ParsedCalls(acc) ==
    IF acc = <<>> THEN [raised |-> FALSE, calls |-> <<>>]
    ELSE LET p == Head(acc)
             a == IF p.isStr THEN LoadArguments(p.arguments)
                  ELSE [raised |-> FALSE, arguments |-> p.arguments]
             rest == ParsedCalls(Tail(acc))
         IN [raised |-> a.raised \/ rest.raised,
             calls |-> <<ToolCallWithArgs(p.id, p.name, a.arguments)>> \o rest.calls]

\* what handling one vendor event gives: the accumulator, the chunks yielded,
\* and whether an exception left the generator
Step(acc, out, raised) == [acc |-> acc, out |-> out, raised |-> raised]

\* ---- Anthropic: events of client.messages.stream ----
AEvent(type, block, id, name, delta, text) ==
    [type |-> type, block |-> block, id |-> id, name |-> name,
     delta |-> delta, text |-> text]

\* the events the vendor can send next; n tool invocations were started before
AnthropicEvents(n) ==
    { AEvent("content_block_start", "text", <<>>, None, None, <<>>),
      AEvent("content_block_delta", None, <<>>, None, "text", <<"a">>),
      AEvent("content_block_stop", None, <<>>, None, None, <<>>),
      AEvent("message_stop", None, <<>>, None, None, <<>>) }
    \cup { AEvent("content_block_start", "tool_use", <<"toolu", n + 1>>, name, None, <<>>) :
              name \in ToolNames }
    \cup { AEvent("content_block_delta", None, <<>>, None, "partial_json", f) :
              f \in ArgFragments }

\* anthropic.py 179-214: the body of the loop for one event
AnthropicStep(cur, ev) ==
    CASE ev.type = "content_block_start" ->
            IF ev.block = "tool_use"
            THEN Step(<<Pending(0, ev.id, ev.name, TRUE, <<>>)>>, <<>>, FALSE)
            ELSE Step(cur, <<>>, FALSE)
      [] ev.type = "content_block_delta" ->
            IF ev.delta = "text" THEN Step(cur, <<ContentChunk(ev.text)>>, FALSE)
            ELSE IF cur # <<>> THEN Step(AccumulateAt(cur, 0, ev.text), <<>>, FALSE)
            ELSE Step(cur, <<>>, FALSE)
      [] ev.type = "content_block_stop" ->
            IF cur # <<>>
            THEN LET p == ParsedCalls(cur)
                 IN IF p.raised THEN Step(cur, <<>>, TRUE)
                    ELSE Step(<<>>, <<ToolChunk(p.calls)>>, FALSE)
            ELSE Step(cur, <<>>, FALSE)
      [] ev.type = "message_stop" -> Step(cur, <<DoneChunk("stop")>>, FALSE)

\* ---- OpenAI: chunks of client.chat.completions.create(stream=True) ----
NoDelta == [index |-> -1, id |-> <<>>, name |-> None, arguments |-> <<>>]
ToolDelta(index, id, name, arguments) ==
    [index |-> index, id |-> id, name |-> name, arguments |-> arguments]

OChunk(choices, content, tool, finish) ==
    [choices |-> choices, content |-> content, tool |-> tool, finish |-> finish]

\* the tool-call deltas the vendor can send next: the first delta of a new
\* index carries the id and the name, a later one only argument text
OpenAIDeltas(n) ==
    { ToolDelta(n, <<"call", n + 1>>, name, f) :
         name \in ToolNames, f \in {<<>>} \cup ArgFragments }
    \cup { ToolDelta(i, <<>>, None, f) : i \in 0..(n - 1), f \in ArgFragments }

OpenAIChunks(n) ==
    { OChunk(FALSE, <<>>, NoDelta, None) }
    \cup { OChunk(TRUE, c, NoDelta, fin) :
              c \in {<<>>, <<"a">>},
              fin \in {None, "stop", "length", "content_filter"} }
    \cup { OChunk(TRUE, <<>>, d, fin) :
              d \in OpenAIDeltas(n), fin \in {None, "tool_calls"} }

\* openai.py 182-228: the body of the loop for one chunk
OpenAIStep(acc, ch) ==
    IF ~ch.choices THEN Step(acc, <<>>, FALSE)
    ELSE LET text == IF ch.content # <<>> THEN <<ContentChunk(ch.content)>> ELSE <<>>
             started == IF ch.tool # NoDelta /\ ~HasKey(acc, ch.tool.index)
                        THEN Append(acc, Pending(ch.tool.index, ch.tool.id,
                                                 ch.tool.name, TRUE, <<>>))
                        ELSE acc
             acc1 == IF ch.tool # NoDelta /\ ch.tool.arguments # <<>>
                     THEN AccumulateAt(started, ch.tool.index, ch.tool.arguments)
                     ELSE started
             p == ParsedCalls(acc1)
         IN IF ch.finish = None THEN Step(acc1, text, FALSE)
            ELSE IF acc1 # <<>> /\ p.raised THEN Step(acc1, text, TRUE)
            ELSE Step(acc1,
                      text \o (IF acc1 # <<>> THEN <<ToolChunk(p.calls)>> ELSE <<>>)
                           \o <<DoneChunk(IF ch.finish = "tool_calls"
                                          THEN "tool_calls" ELSE "stop")>>,
                      FALSE)

\* ---- Ollama: chunks of client.chat(stream=True) ----
NoRaw == [hasId |-> FALSE, id |-> <<>>, name |-> None, isStr |-> FALSE, arguments |-> <<>>]
Raw(hasId, id, name, isStr, arguments) ==
    [hasId |-> hasId, id |-> id, name |-> name, isStr |-> isStr, arguments |-> arguments]

LChunk(content, tool, done, doneReason) ==
    [content |-> content, tool |-> tool, done |-> done, done_reason |-> doneReason]

\* a tool call of an Ollama message: whole, with or without an id, its
\* arguments a dict or a string
OllamaRaws(n) ==
    { Raw(FALSE, <<>>, name, FALSE, v) : name \in ToolNames, v \in ArgumentValues }
    \cup { Raw(h, IF h THEN <<"call", n + 1>> ELSE <<>>, name, TRUE, t) :
              h \in BOOLEAN, name \in ToolNames, t \in {<<"{", "k", "}">>, <<"{">>} }

OllamaChunks(n) ==
    { LChunk(c, NoRaw, d, r) :
         c \in {<<>>, <<"a">>}, d \in BOOLEAN, r \in {"stop", "length"} }
    \cup { LChunk(<<>>, raw, d, "stop") : raw \in OllamaRaws(n), d \in BOOLEAN }

\* ollama.py 212: tc.get("id", f"call_{func.get('name', 'unknown')}")
OllamaId(raw) == IF raw.hasId THEN raw.id ELSE <<"call_", raw.name>>

\* ollama.py 185-225: the body of the loop for one chunk
OllamaStep(acc, ch) ==
    LET text == IF ch.content # <<>> THEN <<ContentChunk(ch.content)>> ELSE <<>>
        acc1 == IF ch.tool # NoRaw
                THEN Append(acc, Pending(Len(acc), OllamaId(ch.tool), ch.tool.name,
                                         ch.tool.isStr, ch.tool.arguments))
                ELSE acc
        p == ParsedCalls(acc1)
        finish == IF acc1 # <<>> THEN "tool_calls"
                  ELSE IF ch.done_reason = "length" THEN "length" ELSE "stop"
    IN IF ~ch.done THEN Step(acc1, text, FALSE)
       ELSE IF p.raised THEN Step(acc1, text, TRUE)
       ELSE Step(acc1,
                 text \o (IF acc1 # <<>> THEN <<ToolChunk(p.calls)>> ELSE <<>>)
                      \o <<DoneChunk(finish)>>,
                 FALSE)

\* ---- Gemini: chunks of chat.send_message_async(stream=True) ----
GPart(kind, text, name, args) == [kind |-> kind, text |-> text, name |-> name, args |-> args]

GeminiParts ==
    { GPart("text", <<"a">>, None, <<>>) }
    \cup { GPart("function_call", <<>>, name, v) : name \in ToolNames, v \in ArgumentValues }

\* gemini.py 271: id=f"call_{fc.name}"
GeminiStreamId(name) == <<"call_", name>>

\* gemini.py 261-276: the body of the loop for one chunk with one part
GeminiStep(acc, part) ==
    IF part.kind = "text" THEN Step(acc, <<ContentChunk(part.text)>>, FALSE)
    ELSE Step(acc, <<ToolChunk(<<ToolCallWithArgs(GeminiStreamId(part.name),
                                                 part.name, part.args)>>)>>, FALSE)

\* ---- the finish reason chat() reports ----
\* the stop_reason of an Anthropic message: tool_use when the message holds a
\* tool_use block, else end_turn; max_tokens when it was cut off
AnthropicStopReasons(hasCalls) ==
    {IF hasCalls THEN "tool_use" ELSE "end_turn", "max_tokens"}

\* the names of candidates[0].finish_reason of a Gemini response
GeminiFinishReasons == {"STOP", "MAX_TOKENS", "SAFETY"}

\* anthropic.py 73-78: _parse_response
AnthropicFinishReason(stopReason) ==
    IF stopReason = "tool_use" THEN "tool_calls"
    ELSE IF stopReason = "max_tokens" THEN "length"
    ELSE "stop"

\* openai.py 78-84: _parse_response
OpenAIFinishReason(finish) ==
    CASE finish = "stop" -> "stop"
      [] finish = "tool_calls" -> "tool_calls"
      [] finish = "length" -> "length"
      [] finish = "content_filter" -> "error"
      [] OTHER -> "stop"

\* ollama.py 78-82: _parse_response
OllamaFinishReason(hasCalls, doneReason) ==
    IF hasCalls THEN "tool_calls"
    ELSE IF doneReason = "length" THEN "length"
    ELSE "stop"

\* gemini.py 122-130: _parse_response
GeminiFinishReason(hasCalls, reason) ==
    IF hasCalls THEN "tool_calls"
    ELSE IF reason = "MAX_TOKENS" THEN "length"
    ELSE IF reason = "SAFETY" THEN "error"
    ELSE "stop"

\* the finish_reason of the LLMResponse chat() returns for a vendor message
\* with these tool invocations and this stop reason
ChatFinishReason(kind, hasCalls, reason) ==
    CASE kind = "anthropic" -> AnthropicFinishReason(reason)
      [] kind = "openai" -> OpenAIFinishReason(reason)
      [] kind = "ollama" -> OllamaFinishReason(hasCalls, reason)
      [] kind = "gemini" -> GeminiFinishReason(hasCalls, reason)

\* ---- the stream as a process ----
\* what the vendor sent for one tool invocation: the id it assigned (<<>>: none),
\* the name, the argument text in arrival order, whether it closed the invocation
Sent(id, name, isStr, text, closed) ==
    [id |-> id, name |-> name, isStr |-> isStr, text |-> text, closed |-> closed]

ProviderStreamIdle ==
    /\ pvPc = "idle"
    /\ pvKind = "none"
    /\ pvAcc = <<>>
    /\ pvOut = <<>>
    /\ pvSent = <<>>
    /\ pvOpen = "none"
    /\ pvFinished = FALSE
    /\ pvVendorRaised = FALSE
    /\ pvText = <<>>
    /\ pvEvents = 0
    /\ pvReason = None

notProv == <<cfgVars, regVars, toolVars, chatVars, streamVars, svcHealthVars, concVars,
             fmtVars, schemaVars>>

\* provider.stream(...) is called and the vendor's stream is opened
ProviderStreamStart(kind) ==
    /\ pvPc = "idle"
    /\ pvPc' = "streaming"
    /\ pvKind' = kind
    /\ UNCHANGED <<pvAcc, pvOut, pvSent, pvOpen, pvFinished, pvVendorRaised,
                   pvText, pvEvents, pvReason, notProv>>

\* the generator after one vendor event was handled
AfterStep(res) ==
    /\ pvAcc' = res.acc
    /\ pvOut' = pvOut \o res.out
    /\ pvPc' = IF res.raised THEN "raised" ELSE pvPc
    /\ pvEvents' = pvEvents + 1
    /\ UNCHANGED <<pvKind, pvVendorRaised, notProv>>

CloseLast(sent) == [sent EXCEPT ![Len(sent)].closed = TRUE]
CloseAll(sent) == [i \in DOMAIN sent |-> [sent[i] EXCEPT !.closed = TRUE]]

\* the vendor (Anthropic) sends its next event: blocks are opened, filled and
\* closed one after the other, and message_stop comes last
AnthropicEvent(ev) ==
    /\ pvPc = "streaming" /\ pvKind = "anthropic"
    /\ pvEvents < MaxEvents /\ ~pvFinished
    /\ ev \in AnthropicEvents(Len(pvSent))
    /\ CASE ev.type = "content_block_start" ->
               pvOpen = "none" /\ (ev.block = "tool_use" => Len(pvSent) < MaxInvocations)
         [] ev.type = "content_block_delta" ->
               pvOpen = (IF ev.delta = "text" THEN "text" ELSE "tool_use")
         [] ev.type = "content_block_stop" -> pvOpen # "none"
         [] ev.type = "message_stop" -> pvOpen = "none"
    /\ pvOpen' = CASE ev.type = "content_block_start" -> ev.block
                   [] ev.type = "content_block_stop" -> "none"
                   [] OTHER -> pvOpen
    /\ pvFinished' = (ev.type = "message_stop")
    /\ IF ev.type = "message_stop"
       THEN pvReason' \in AnthropicStopReasons(pvSent # <<>>)
       ELSE pvReason' = pvReason
    /\ pvText' = IF ev.type = "content_block_delta" /\ ev.delta = "text"
                 THEN pvText \o ev.text ELSE pvText
    /\ pvSent' = CASE ev.type = "content_block_start" /\ ev.block = "tool_use" ->
                        Append(pvSent, Sent(ev.id, ev.name, TRUE, <<>>, FALSE))
                   [] ev.type = "content_block_delta" /\ ev.delta = "partial_json" ->
                        [pvSent EXCEPT ![Len(pvSent)].text = @ \o ev.text]
                   [] ev.type = "content_block_stop" /\ pvOpen = "tool_use" ->
                        CloseLast(pvSent)
                   [] OTHER -> pvSent
    /\ AfterStep(AnthropicStep(pvAcc, ev))

\* the vendor (OpenAI) sends its next chunk: the finish reason comes once, in
\* the last chunk that has choices
OpenAIChunk(ch) ==
    /\ pvPc = "streaming" /\ pvKind = "openai"
    /\ pvEvents < MaxEvents
    /\ ch \in OpenAIChunks(Len(pvSent))
    /\ ch.choices => ~pvFinished
    /\ ch.tool.index < MaxInvocations
    /\ pvOpen' = pvOpen
    /\ pvFinished' = (pvFinished \/ (ch.choices /\ ch.finish # None))
    /\ pvReason' = IF ch.choices /\ ch.finish # None THEN ch.finish ELSE pvReason
    /\ pvText' = pvText \o ch.content
    /\ LET i == ch.tool.index + 1
           sent == IF ch.tool = NoDelta THEN pvSent
                   ELSE IF i > Len(pvSent)
                   THEN Append(pvSent, Sent(ch.tool.id, ch.tool.name, TRUE,
                                            ch.tool.arguments, FALSE))
                   ELSE [pvSent EXCEPT ![i].text = @ \o ch.tool.arguments]
       IN pvSent' = IF ch.choices /\ ch.finish # None THEN CloseAll(sent) ELSE sent
    /\ AfterStep(OpenAIStep(pvAcc, ch))

\* the vendor (Ollama) sends its next chunk: done comes in the last chunk
OllamaChunk(ch) ==
    /\ pvPc = "streaming" /\ pvKind = "ollama"
    /\ pvEvents < MaxEvents /\ ~pvFinished
    /\ ch \in OllamaChunks(Len(pvSent))
    /\ ch.tool # NoRaw => Len(pvSent) < MaxInvocations
    /\ pvOpen' = pvOpen
    /\ pvFinished' = ch.done
    /\ pvReason' = IF ch.done THEN ch.done_reason ELSE pvReason
    /\ pvText' = pvText \o ch.content
    /\ LET sent == IF ch.tool = NoRaw THEN pvSent
                   ELSE Append(pvSent, Sent(ch.tool.id, ch.tool.name, ch.tool.isStr,
                                            ch.tool.arguments, FALSE))
       IN pvSent' = IF ch.done THEN CloseAll(sent) ELSE sent
    /\ AfterStep(OllamaStep(pvAcc, ch))

\* the vendor (Gemini) sends its next chunk, of one part
GeminiChunk(part) ==
    /\ pvPc = "streaming" /\ pvKind = "gemini"
    /\ pvEvents < MaxEvents
    /\ part.kind = "function_call" => Len(pvSent) < MaxInvocations
    /\ pvOpen' = pvOpen
    /\ pvFinished' = pvFinished
    /\ pvReason' = pvReason
    /\ pvText' = pvText \o part.text
    /\ pvSent' = IF part.kind = "function_call"
                 THEN Append(pvSent, Sent(<<>>, part.name, FALSE, part.args, TRUE))
                 ELSE pvSent
    /\ AfterStep(GeminiStep(pvAcc, part))

\* the vendor's stream is exhausted and the loop ends; gemini.py 278 yields
\* the terminal chunk after the loop
VendorStreamEnds ==
    /\ pvPc = "streaming"
    /\ pvPc' = "ended"
    /\ pvOut' = IF pvKind = "gemini" THEN Append(pvOut, DoneChunk("stop")) ELSE pvOut
    /\ pvFinished' = (pvFinished \/ pvKind = "gemini")
    /\ IF pvKind = "gemini"
       THEN pvReason' \in GeminiFinishReasons
       ELSE pvReason' = pvReason
    /\ UNCHANGED <<pvKind, pvAcc, pvSent, pvOpen, pvVendorRaised, pvText, pvEvents,
                   notProv>>

\* the vendor's stream raises (APIError, ResponseError, ...): the provider
\* re-raises it as an LLMProviderError
VendorStreamRaises ==
    /\ pvPc = "streaming"
    /\ pvPc' = "raised"
    /\ pvVendorRaised' = TRUE
    /\ UNCHANGED <<pvKind, pvAcc, pvOut, pvSent, pvOpen, pvFinished, pvText, pvEvents,
                   pvReason, notProv>>

ProviderStreamNext ==
    \/ \E kind \in Kinds : ProviderStreamStart(kind)
    \/ \E ev \in AnthropicEvents(Len(pvSent)) : AnthropicEvent(ev)
    \/ \E ch \in OpenAIChunks(Len(pvSent)) : OpenAIChunk(ch)
    \/ \E ch \in OllamaChunks(Len(pvSent)) : OllamaChunk(ch)
    \/ \E part \in GeminiParts : GeminiChunk(part)
    \/ VendorStreamEnds
    \/ VendorStreamRaises

-----------------------------------------------------------------------------
(* Vendor formats of a ChatMessage (app/models/llm.py) and the message list  *)
(* GeminiProvider sends (app/providers/gemini.py)                            *)

\* longest message list translated
MaxMessages == 2

Formats == {"anthropic", "openai", "gemini", "ollama"}

\* None as an id
NoId == <<>>

\* ChatMessage: role, content, tool_calls, tool_call_id, name
ChatMessage(role, content, toolCalls, toolCallId, name) ==
    [role |-> role, content |-> content, tool_calls |-> toolCalls,
     tool_call_id |-> toolCallId, name |-> name]

\* one entry of a vendor message's content list, parts list or tool_calls list
Entry(type, id, name, arguments, text) ==
    [type |-> type, id |-> id, name |-> name, arguments |-> arguments, text |-> text]

TextEntry(text) == Entry("text", NoId, None, <<>>, text)

\* a vendor message: its role, its string content (<<>>: none), its list of
\* entries and its top-level tool_call_id
VendorMessage(role, content, entries, toolCallId) ==
    [role |-> role, content |-> content, entries |-> entries,
     tool_call_id |-> toolCallId]

NoVendorMessage == VendorMessage("none", <<>>, <<>>, NoId)

\* f"[System]: {self.content}"
SystemPrefix(text) == <<"[System]: ">> \o text

\* str(tc.arguments): the text of the dict, no longer the dict
StrOf(arguments) == <<"str(">> \o arguments \o <<")">>

\* lines 43-76
ToAnthropicFormat(m) ==
    CASE m.role = "system" ->
            VendorMessage("user", SystemPrefix(m.content), <<>>, NoId)
      [] m.role = "tool" ->
            VendorMessage("user", <<>>,
                          <<Entry("tool_result", m.tool_call_id, None, <<>>, m.content)>>,
                          NoId)
      [] m.role = "assistant" /\ m.tool_calls # <<>> ->
            VendorMessage("assistant", <<>>,
                (IF m.content # <<>> THEN <<TextEntry(m.content)>> ELSE <<>>)
                \o [i \in 1..Len(m.tool_calls) |->
                       Entry("tool_use", m.tool_calls[i].id, m.tool_calls[i].name,
                             m.tool_calls[i].arguments, <<>>)],
                NoId)
      [] OTHER -> VendorMessage(m.role, m.content, <<>>, NoId)

\* lines 78-107
ToOpenAIFormat(m) ==
    CASE m.role = "system" -> VendorMessage("system", m.content, <<>>, NoId)
      [] m.role = "tool" -> VendorMessage("tool", m.content, <<>>, m.tool_call_id)
      [] m.role = "assistant" /\ m.tool_calls # <<>> ->
            VendorMessage("assistant", m.content,
                [i \in 1..Len(m.tool_calls) |->
                    Entry("function", m.tool_calls[i].id, m.tool_calls[i].name,
                          StrOf(m.tool_calls[i].arguments), <<>>)],
                NoId)
      [] OTHER -> VendorMessage(m.role, m.content, <<>>, NoId)

\* lines 109-138
ToGeminiFormat(m) ==
    CASE m.role = "system" ->
            VendorMessage("user", <<>>, <<TextEntry(SystemPrefix(m.content))>>, NoId)
      [] m.role = "tool" ->
            VendorMessage("function", <<>>,
                <<Entry("function_response", NoId,
                        IF m.name # None THEN m.name ELSE "unknown", <<>>, m.content)>>,
                NoId)
      [] m.role = "assistant" /\ m.tool_calls # <<>> ->
            VendorMessage("model", <<>>,
                (IF m.content # <<>> THEN <<TextEntry(m.content)>> ELSE <<>>)
                \o [i \in 1..Len(m.tool_calls) |->
                       Entry("function_call", NoId, m.tool_calls[i].name,
                             m.tool_calls[i].arguments, <<>>)],
                NoId)
      [] OTHER ->
            VendorMessage(IF m.role = "assistant" THEN "model" ELSE "user", <<>>,
                          <<TextEntry(m.content)>>, NoId)

\* lines 140-142
ToOllamaFormat(m) == ToOpenAIFormat(m)

ToFormat(format, m) ==
    CASE format = "anthropic" -> ToAnthropicFormat(m)
      [] format = "openai" -> ToOpenAIFormat(m)
      [] format = "gemini" -> ToGeminiFormat(m)
      [] format = "ollama" -> ToOllamaFormat(m)

\* gemini.py 41-45: the loop of _convert_messages
RECURSIVE GeminiConvertFrom(_, _, _)
GeminiConvertFrom(messages, system, out) ==
    IF messages = <<>> THEN [system |-> system, messages |-> out]
    ELSE IF Head(messages).role = "system"
         THEN GeminiConvertFrom(Tail(messages), Head(messages).content, out)
         ELSE GeminiConvertFrom(Tail(messages), system,
                                Append(out, ToGeminiFormat(Head(messages))))

\* gemini.py 34-47: _convert_messages(messages, system_prompt); a system_prompt
\* of None is <<>>
GeminiConvertMessages(messages, systemPrompt) ==
    GeminiConvertFrom(messages, systemPrompt, <<>>)

\* ---- the inputs ----
CallA == ToolCallWithArgs(<<"call", 1>>, "lookup", <<"k">>)
CallB == ToolCallWithArgs(<<"call", 2>>, "lookup", <<>>)

Contents == {<<>>, <<"hi">>}

ChatMessageInputs ==
    { ChatMessage(role, c, <<>>, NoId, None) :
         role \in {"system", "user", "assistant"}, c \in Contents }
    \cup { ChatMessage("assistant", c, calls, NoId, None) :
              c \in Contents, calls \in {<<CallA>>, <<CallA, CallB>>, <<CallB, CallA>>} }
    \cup { ChatMessage("tool", c, <<>>, id, name) :
              c \in Contents, id \in {CallA.id, CallB.id}, name \in {None, "lookup"} }

SystemMessage == ChatMessage("system", <<"Be terse.">>, <<>>, NoId, None)
UserMessage == ChatMessage("user", <<"hi">>, <<>>, NoId, None)

ListMessages ==
    { SystemMessage, UserMessage, ChatMessage("assistant", <<"hello">>, <<>>, NoId, None) }

NoConversion == [system |-> <<>>, messages |-> <<>>]

\* nothing translated
FormatsIdle ==
    /\ fmMsg = UserMessage
    /\ fmList = <<>>
    /\ fmOut = [f \in Formats |-> NoVendorMessage]
    /\ fmConv = NoConversion
    /\ fmDone = {}

notFormats == <<cfgVars, regVars, toolVars, chatVars, streamVars, svcHealthVars,
                concVars, provVars, schemaVars>>

\* the message is translated to each vendor format
TranslateMessage ==
    /\ "formats" \notin fmDone
    /\ fmOut' = [f \in Formats |-> ToFormat(f, fmMsg)]
    /\ fmDone' = fmDone \cup {"formats"}
    /\ UNCHANGED <<fmMsg, fmList, fmConv, notFormats>>

\* GeminiProvider._convert_messages is applied to the list
ConvertMessages(systemPrompt) ==
    /\ "list" \notin fmDone
    /\ fmConv' = GeminiConvertMessages(fmList, systemPrompt)
    /\ fmDone' = fmDone \cup {"list"}
    /\ UNCHANGED <<fmMsg, fmList, fmOut, notFormats>>

FormatsNext ==
    \/ TranslateMessage
    \/ \E prompt \in {<<>>, <<"Be kind.">>} : ConvertMessages(prompt)

-----------------------------------------------------------------------------
(* Tool parameter schemas for Gemini: Tool._convert_schema_for_gemini         *)
(* (app/models/tools.py) and GeminiProvider._convert_schema_to_gemini         *)
(* (app/providers/gemini.py). A schema is the set of keys it has and their    *)
(* values; items is <<>> or a one-element sequence.                           *)

\* deepest nesting of the schemas translated
MaxDepth == 2

Schema(has, type, properties, required, items, enum, description) ==
    [has |-> has, type |-> type, properties |-> properties, required |-> required,
     items |-> items, enum |-> enum, description |-> description]

Property(name, schema) == [name |-> name, schema |-> schema]

\* str.upper() on a JSON Schema type name
Upper(name) ==
    CASE name = "string" -> "STRING"
      [] name = "number" -> "NUMBER"
      [] name = "integer" -> "INTEGER"
      [] name = "boolean" -> "BOOLEAN"
      [] name = "array" -> "ARRAY"
      [] name = "object" -> "OBJECT"
      [] name = "null" -> "NULL"

\* gemini.py 68-77: type_mapping.get(schema.get("type", "string"), Type.STRING)
TypeMapping(has, name) ==
    IF "type" \in has /\ name \in {"string", "number", "integer", "boolean", "array", "object"}
    THEN Upper(name)
    ELSE "STRING"

\* the keys both translations copy
KeptKeys == {"type", "properties", "required", "items", "enum", "description"}

\* tools.py 47-73
RECURSIVE ConvertSchemaForGemini(_)
ConvertSchemaForGemini(schema) ==
    Schema(schema.has \cap KeptKeys,
           IF "type" \in schema.has THEN Upper(schema.type) ELSE schema.type,
           [i \in DOMAIN schema.properties |->
               Property(schema.properties[i].name,
                        ConvertSchemaForGemini(schema.properties[i].schema))],
           schema.required,
           [i \in DOMAIN schema.items |-> ConvertSchemaForGemini(schema.items[i])],
           schema.enum,
           schema.description)

\* gemini.py 66-99: the proto Schema always has a type
RECURSIVE ConvertSchemaToGemini(_)
ConvertSchemaToGemini(schema) ==
    Schema((schema.has \cap KeptKeys) \cup {"type"},
           TypeMapping(schema.has, schema.type),
           [i \in DOMAIN schema.properties |->
               Property(schema.properties[i].name,
                        ConvertSchemaToGemini(schema.properties[i].schema))],
           schema.required,
           [i \in DOMAIN schema.items |-> ConvertSchemaToGemini(schema.items[i])],
           schema.enum,
           schema.description)

\* ---- the inputs ----
LeafSchema(type, extra) ==
    Schema((IF type = "absent" THEN {} ELSE {"type"}) \cup extra, type, <<>>, <<>>, <<>>,
           IF "enum" \in extra THEN <<"a", "b">> ELSE <<>>,
           IF "description" \in extra THEN <<"text">> ELSE <<>>)

LeafSchemas ==
    { LeafSchema(t, x) : t \in {"absent", "string", "integer", "null"},
                         x \in {{}, {"title"}, {"description"}, {"enum"}} }

ObjectSchema(p, req) ==
    Schema({"type", "properties", "additionalProperties"}
               \cup (IF req THEN {"required"} ELSE {}),
           "object", <<Property("q", p)>>, IF req THEN <<"q">> ELSE <<>>,
           <<>>, <<>>, <<>>)

ArraySchema(s) == Schema({"type", "items"}, "array", <<>>, <<>>, <<s>>, <<>>, <<>>)

RECURSIVE SchemasUpTo(_)
SchemasUpTo(depth) ==
    IF depth = 0 THEN LeafSchemas
    ELSE LET S == SchemasUpTo(depth - 1)
         IN S \cup { ObjectSchema(p, req) : p \in S, req \in BOOLEAN }
              \cup { ArraySchema(s) : s \in S }

NoSchema == Schema({}, "absent", <<>>, <<>>, <<>>, <<>>, <<>>)

SchemasIdle ==
    /\ scIn = NoSchema
    /\ scTool = NoSchema
    /\ scProvider = NoSchema
    /\ scDone = {}

notSchemas == <<cfgVars, regVars, toolVars, chatVars, streamVars, svcHealthVars,
                concVars, provVars, fmtVars>>

\* Tool.to_gemini_format translates the parameters
ToolToGeminiFormat ==
    /\ "tool" \notin scDone
    /\ scTool' = ConvertSchemaForGemini(scIn)
    /\ scDone' = scDone \cup {"tool"}
    /\ UNCHANGED <<scIn, scProvider, notSchemas>>

\* GeminiProvider._convert_tools translates the parameters
ProviderConvertTools ==
    /\ "provider" \notin scDone
    /\ scProvider' = ConvertSchemaToGemini(scIn)
    /\ scDone' = scDone \cup {"provider"}
    /\ UNCHANGED <<scIn, scTool, notSchemas>>

SchemasNext ==
    \/ ToolToGeminiFormat
    \/ ProviderConvertTools

\* every part of the model outside a running request starts idle
ExtIdle ==
    /\ ConcurrentIdle
    /\ ProviderStreamIdle
    /\ FormatsIdle
    /\ SchemasIdle

-----------------------------------------------------------------------------
(* Specifications of the service *)

ChatInit ==
    /\ mcpEnabled \in BOOLEAN
    /\ hasMcp \in BOOLEAN
    /\ hasMcp \/ mcpEnabled
    /\ maxIter \in 0..MaxIterations
    /\ available = Kinds
    /\ RegEmpty
    /\ ToolsIdle
    /\ ChatIdle
    /\ StreamIdle
    /\ ServiceHealthIdle
    /\ ExtIdle

SpecChat == ChatInit /\ [][ChatNext]_vars

StreamInit ==
    /\ mcpEnabled \in BOOLEAN
    /\ hasMcp \in BOOLEAN
    /\ hasMcp \/ mcpEnabled
    /\ maxIter \in 0..MaxStreamIterations
    /\ available = Kinds
    /\ RegEmpty
    /\ ToolsIdle
    /\ ChatIdle
    /\ StreamIdle
    /\ ServiceHealthIdle
    /\ ExtIdle

SpecStream == StreamInit /\ [][StreamNext]_vars

\* a service that serves chat requests, or one that serves stream requests
ServiceNext ==
    \/ streamPc = "idle" /\ ChatNext
    \/ chatPc = "idle" /\ StreamNext

ServiceInit == StreamInit

SpecService == ServiceInit /\ [][ServiceNext]_vars

\* the text of a sequence of chunks: their content, concatenated
RECURSIVE ConcatContent(_)
ConcatContent(chunks) ==
    IF chunks = <<>> THEN <<>>
    ELSE Head(chunks).content \o ConcatContent(Tail(chunks))

\* the response provider.chat returns when it generates what provider.stream
\* yielded: the whole text at once, with the finish reason of the done chunk
FixedResponse(chunks) ==
    Response(ConcatContent(chunks), <<>>, chunks[Len(chunks)].finish_reason)

\* a provider that generates text only, served first through stream and then,
\* with the same arguments and the same generated text, through chat
EquivNext ==
    \/ \E args \in StreamArgSets, ok1 \in BOOLEAN, ok2 \in BOOLEAN :
          chatPc = "idle" /\ StreamStart(args, ok1, ok2)
    \/ \E text \in {<<"Hel">>, <<"lo">>} : StreamData(ContentChunk(text))
    \/ \E finish \in {"stop", "tool_calls", "length"} : StreamDone(finish)
    \/ \E ok1 \in BOOLEAN, ok2 \in BOOLEAN :
          /\ streamPc = "ended"
          /\ streamExit = "terminal_chunk"
          /\ ChatStart(streamArgs, ok1, ok2)
    \/ /\ streamPc = "ended"
       /\ ChatProviderReturns(FixedResponse(provided))

EquivInit == StreamInit

SpecEquivalence == EquivInit /\ [][EquivNext]_vars

-----------------------------------------------------------------------------
(* Specifications of the registry alone *)

RegNext ==
    \/ \E kind \in RegKinds, kw \in {NoKw, ModelKw(CustomModel)}, ok \in BOOLEAN :
          RegCreate(kind, kw, ok)
    \/ \E kind \in RegKinds, key \in {None, "shared"}, kw \in {NoKw, ModelKw(CustomModel)},
          ok \in BOOLEAN : RegGetOrCreate(kind, key, kw, ok)
    \/ RegClearCache
    \/ \E name \in RegKinds \cup {None}, model \in {None, CustomModel},
          ok1 \in BOOLEAN, ok2 \in BOOLEAN : SvcGetProvider(name, model, ok1, ok2)

RegInit ==
    /\ mcpEnabled = TRUE
    /\ hasMcp = TRUE
    /\ maxIter = DefaultMaxToolIterations
    /\ available = Kinds
    /\ RegEmpty
    /\ ToolsIdle
    /\ ChatIdle
    /\ StreamIdle
    /\ ServiceHealthIdle
    /\ ExtIdle

SpecRegistry == RegInit /\ [][RegNext]_vars

SpecConcurrent == RegInit /\ [][ConcurrentNext]_vars

SpecProviderStream == RegInit /\ [][ProviderStreamNext]_vars

\* the translations start from any message and any list of the inputs
FormatsInit ==
    /\ mcpEnabled = TRUE
    /\ hasMcp = TRUE
    /\ maxIter = DefaultMaxToolIterations
    /\ available = Kinds
    /\ RegEmpty
    /\ ToolsIdle
    /\ ChatIdle
    /\ StreamIdle
    /\ ServiceHealthIdle
    /\ ConcurrentIdle
    /\ ProviderStreamIdle
    /\ fmMsg \in ChatMessageInputs
    /\ fmList \in SeqsUpTo(ListMessages, MaxMessages)
    /\ fmOut = [f \in Formats |-> NoVendorMessage]
    /\ fmConv = NoConversion
    /\ fmDone = {}
    /\ SchemasIdle

SpecFormats == FormatsInit /\ [][FormatsNext]_vars

\* the translations start from any schema of the inputs
SchemasInit ==
    /\ mcpEnabled = TRUE
    /\ hasMcp = TRUE
    /\ maxIter = DefaultMaxToolIterations
    /\ available = Kinds
    /\ RegEmpty
    /\ ToolsIdle
    /\ ChatIdle
    /\ StreamIdle
    /\ ServiceHealthIdle
    /\ ConcurrentIdle
    /\ ProviderStreamIdle
    /\ FormatsIdle
    /\ scIn \in SchemasUpTo(MaxDepth)
    /\ scTool = NoSchema
    /\ scProvider = NoSchema
    /\ scDone = {}

SpecSchemas == SchemasInit /\ [][SchemasNext]_vars

HealthNext ==
    \/ \E preferred \in {None, "anthropic", "gemini"}, order \in FallbackOrders :
          HealthyStart(preferred, order)
    \/ \E ok \in BOOLEAN : HealthyTry(ok)
    \/ \E outcome \in ProbeOutcomes : HealthyProbeResult(outcome)
    \/ HealthyExhausted

HealthInit ==
    /\ mcpEnabled = TRUE
    /\ hasMcp = TRUE
    /\ maxIter = DefaultMaxToolIterations
    /\ available \in AvailableSets
    /\ RegEmpty
    /\ ToolsIdle
    /\ ChatIdle
    /\ StreamIdle
    /\ ServiceHealthIdle
    /\ ExtIdle

SpecHealth == HealthInit /\ [][HealthNext]_vars

ServiceHealthNext ==
    \/ \E name \in {None, "openai", "ollama", UnknownProvider} : ServiceHealthStart(name)
    \/ \E ok \in BOOLEAN, vendor \in UNION {VendorOutcomes(k) : k \in Kinds} :
          ServiceHealthProbe(ok, vendor)
    \/ ServiceHealthReturn

SpecServiceHealth == HealthInit /\ [][ServiceHealthNext]_vars

ToolsInit ==
    /\ mcpEnabled \in BOOLEAN
    /\ available = {"ollama"}
    /\ hasMcp = TRUE
    /\ maxIter = DefaultMaxToolIterations
    /\ RegEmpty
    /\ ToolsIdle
    /\ ChatIdle
    /\ StreamIdle
    /\ ServiceHealthIdle
    /\ ExtIdle
    /\ ChatIdle

SpecTools == ToolsInit /\ [][ToolsNext]_vars

-----------------------------------------------------------------------------
(* Claims about MCPService.execute_tools *)

\* the replies that make one call fail: no usable answer from the endpoint
FailureReply(reply) ==
    \/ reply.kind \in {"transport_error", "status", "malformed", "not_object"}
    \/ reply.kind = "json" /\ reply.shape \notin {"missing", "str", "list", "dict"}

\* the text the endpoint's body carries, written out per body of EndpointReplies
EndpointText(reply) ==
    CASE reply.shape = "missing" -> <<>>
      [] reply.shape = "str" -> reply.content
      [] reply.shape = "list" /\ reply.content = <<>> -> <<>>
      [] reply.shape = "list" /\ reply.content # <<>> -> <<"a", "\n", "b">>
      [] reply.shape = "dict" -> <<"str(", "k", ")">>

\* C2: for a batch of K calls and any completion order, execute_tools returns
\* exactly K results, result i carries the tool_call_id of call i, a failed call
\* is flagged is_error and a succeeded call carries the endpoint's content.
C2_ResultsInInputOrder ==
    etPc = "returned" =>
        /\ Len(etResults) = Len(etCalls)
        /\ \A i \in 1..Len(etCalls) :
              /\ etResults[i].tool_call_id = etCalls[i].id
              /\ (~mcpEnabled \/ FailureReply(taskReply[i])) => etResults[i].is_error
              /\ (mcpEnabled /\ ~FailureReply(taskReply[i])) =>
                    etResults[i].content = EndpointText(taskReply[i])

\* a batch of two whose second call completed first, one failed and one succeeded
C2_Witness ==
    /\ etPc = "returned"
    /\ mcpEnabled
    /\ Len(etCalls) = 2
    /\ etCalls[1].id # etCalls[2].id
    /\ completion = <<2, 1>>
    /\ taskReply[1].kind = "json" /\ taskReply[1].shape = "list" /\ taskReply[1].content # <<>>
    /\ taskReply[2].kind = "transport_error"

\* C3: execute_tools never raises; a call that failed (transport error, HTTP
\* error status, malformed body) holds an is_error result with its own id, and
\* every other slot holds what its own call and reply alone determine.
C3_NeverRaisesIsolated ==
    /\ etPc # "raised"
    /\ etPc = "returned" =>
          \A i \in 1..Len(etCalls) :
              /\ Len(etResults) = Len(etCalls)
              /\ FailureReply(taskReply[i]) =>
                    etResults[i].is_error /\ etResults[i].tool_call_id = etCalls[i].id
              /\ (mcpEnabled /\ ~FailureReply(taskReply[i])) =>
                    etResults[i] = ToolResult(etCalls[i].id, EndpointText(taskReply[i]),
                                              taskReply[i].isError = "true")

\* a malformed body for the first call next to a good answer for the second
C3_Witness ==
    /\ etPc = "returned"
    /\ Len(etCalls) = 2
    /\ taskReply[1].kind = "malformed"
    /\ taskReply[2].kind = "json" /\ taskReply[2].shape = "str"
    /\ etResults[1].is_error /\ ~etResults[2].is_error

-----------------------------------------------------------------------------
(* Claims about ProviderRegistry *)

\* s without the later repetitions of its elements
RECURSIVE KeepFirst(_)
KeepFirst(s) ==
    IF s = <<>> THEN <<>>
    ELSE LET init == KeepFirst(SubSeq(s, 1, Len(s) - 1))
             last == s[Len(s)]
         IN IF last \in Range(init) THEN init ELSE Append(init, last)

\* the candidates of the running get_healthy_provider call, as documented:
\* the preferred provider if available, then the available ones of the
\* fallback order that are not already in the list
CandidateList ==
    LET IsAvailable(p) == p \in available
        head == IF hpArgs.preferred \in available THEN <<hpArgs.preferred>> ELSE <<>>
    IN KeepFirst(head \o SelectSeq(hpArgs.order, IsAvailable))

\* C7: get_healthy_provider tries the candidates one at a time in the order
\* preferred (if available), then the available providers of the fallback
\* order not yet in the list; it returns the first whose probe succeeds,
\* probes none after it, none twice, and never an unavailable provider.
C7_ProbesInOrderUntilHealthy ==
    LET n == Len(hpProbed)
    IN /\ n <= Len(CandidateList)
       /\ \A i \in 1..n : hpProbed[i].kind = CandidateList[i]
       /\ \A i \in 1..n : hpProbed[i].kind \in available
       /\ \A i \in 1..n : \A j \in 1..n : i # j => hpProbed[i].kind # hpProbed[j].kind
       /\ \A i \in 1..n : hpProbed[i].outcome = "true" => (i = n /\ hpPc = "returned")
       /\ hpPc = "returned" =>
             n > 0 /\ hpProbed[n].outcome = "true" /\ hpRet.kind = hpProbed[n].kind
       /\ hpPc = "awaiting" =>
             n < Len(CandidateList) /\ hpRet.kind = CandidateList[n + 1]

\* the documented scenario: anthropic preferred and unhealthy, openai healthy
C7_Witness ==
    /\ hpPc = "returned"
    /\ hpArgs = [preferred |-> "anthropic", order |-> <<"anthropic", "openai", "ollama">>]
    /\ hpProbed = << [kind |-> "anthropic", outcome |-> "false"],
                     [kind |-> "openai", outcome |-> "true"] >>
    /\ hpRet.kind = "openai"
    /\ "ollama" \in available

\* C8: a second get_or_create_provider with the same kind and cache key, with
\* no clear_cache in between, returns the identical instance and constructs
\* nothing; create_provider returns an instance distinct from every earlier
\* one and leaves the cache as it was.
C8_CacheIdentityAndFreshCreate ==
    /\ (regLast.op = "get_or_create_provider" /\ ~regLast.raised
            /\ regLast.prev # NoInstance) =>
          regLast.ret = regLast.prev /\ regCount = regLast.countBefore
    /\ (regLast.op = "create_provider" /\ ~regLast.raised) =>
          /\ regLast.ret.id > regLast.countBefore
          /\ \A k \in CacheKeys : regLast.cacheBefore[k] # regLast.ret
          /\ regCache = regLast.cacheBefore

\* a cache hit under an explicit key after other instances were constructed
C8_Witness ==
    /\ regLast.op = "get_or_create_provider"
    /\ regLast.key = "shared"
    /\ regLast.prev # NoInstance
    /\ regLast.ret = regLast.prev
    /\ regCount >= 2

\* C9: a request with a model override is served by an instance constructed
\* for that request by create_provider, neither taken from the cache nor
\* stored in it.
C9_OverrideAlwaysFresh ==
    (regLast.op = "_get_provider" /\ regLast.model # None /\ ~regLast.raised) =>
        /\ regLast.ret.id > regLast.countBefore
        /\ \A k \in CacheKeys : regLast.cacheBefore[k] # regLast.ret
        /\ \A k \in CacheKeys : regCache[k] # regLast.ret

-----------------------------------------------------------------------------
(* Claims about LLMService.chat *)

\* a response that asks for tools: a non-empty list and finish_reason tool_calls
AsksForTools(resp) == resp.tool_calls # <<>> /\ resp.finish_reason = "tool_calls"

EveryRoundAskedForTools ==
    \A i \in 1..Len(chatResponses) : AsksForTools(chatResponses[i])

ChatEnded == chatPc \in {"returned", "raised"} /\ chatError \notin {"construction", "provider"}

\* C1: with iteration ceiling N, if the provider answers every round with tool
\* calls and finish_reason tool_calls, chat fails with the max-tool-iterations
\* error after exactly N provider round trips, not N-1 and not N+1.
C1_MaxIterationsAfterExactlyN ==
    /\ Len(chatCallLog) <= maxIter
    /\ (chatPc = "raised" /\ chatError = "max_tool_iterations") =>
          /\ Len(chatCallLog) = maxIter
          /\ Len(chatResponses) = maxIter
          /\ EveryRoundAskedForTools
    /\ (ChatEnded /\ EveryRoundAskedForTools) =>
          /\ chatPc = "raised"
          /\ chatError = "max_tool_iterations"
          /\ Len(chatCallLog) = maxIter

\* two tool rounds under a ceiling of two, then the error
C1_Witness ==
    /\ chatPc = "raised"
    /\ chatError = "max_tool_iterations"
    /\ maxIter = 2
    /\ Len(chatCallLog) = 2
    /\ Len(gatewayCalls) = 2

\* C10: chat returns, unchanged, the first response that carries no tool calls
\* or whose finish reason is not tool_calls, and calls neither the provider
\* nor the gateway after it.
C10_ReturnsFirstFinalResponse ==
    LET n == Len(chatResponses)
        Final(r) == r.tool_calls = <<>> \/ r.finish_reason # "tool_calls"
    IN /\ \A i \in 1..n : Final(chatResponses[i]) => (i = n /\ chatPc = "returned")
       /\ chatPc = "returned" =>
             /\ n > 0
             /\ Final(chatResponses[n])
             /\ chatReturn = chatResponses[n]
             /\ Len(chatCallLog) = n
             /\ Len(gatewayCalls) = IF hasMcp THEN n - 1 ELSE 0

\* a second-round response with a tool call but finish_reason stop is returned
C10_Witness ==
    /\ chatPc = "returned"
    /\ Len(chatResponses) = 2
    /\ chatReturn = Response(<<"partial">>, <<Call2>>, "stop")
    /\ Len(chatCallLog) = 2
    /\ Len(gatewayCalls) = 1

\* the messages one tool round must add to the context: the assistant message
\* of the round, then one tool message per result
RoundMessages(resp, results) ==
    <<[role |-> "assistant", content |-> resp.content, tool_calls |-> resp.tool_calls,
       tool_call_id |-> None]>>
    \o [j \in 1..Len(results) |->
          [role |-> "tool", content |-> results[j].content, tool_calls |-> <<>>,
           tool_call_id |-> results[j].tool_call_id]]

\* C11: after each tool round of chat, the context sent on the next round is
\* the previous context followed by exactly one assistant message carrying the
\* round's text and ToolCalls and then one tool message per ToolResult, in
\* result order, each with the result's content and tool_call_id; the earlier
\* messages are unchanged and in the same order.
C11_ContextGrowsByOneRound ==
    \A i \in 1..(Len(chatCallLog) - 1) :
        /\ i <= Len(chatResponses)
        /\ i <= Len(chatToolResults)
        /\ chatCallLog[i + 1].context =
              chatCallLog[i].context \o RoundMessages(chatResponses[i], chatToolResults[i])

\* a third provider call after two tool rounds, the first with two results,
\* on a request that came with a history
C11_Witness ==
    /\ Len(chatCallLog) = 3
    /\ hasMcp
    /\ chatArgs.history # <<>>
    /\ Len(chatToolResults[1]) = 2
    /\ chatToolResults[1][1].is_error # chatToolResults[1][2].is_error

-----------------------------------------------------------------------------
(* Claims about LLMService.chat and LLMService.stream together *)

\* C12: if the provider's chat or stream call raises in any round, chat
\* (respectively stream) surfaces that error to its caller without retrying:
\* the failed call is the last provider call of the request and no gateway
\* call is made after it.
C12_ProviderErrorSurfacesNoRetry ==
    /\ chatRaisedAt # 0 =>
          /\ chatPc = "raised"
          /\ chatError = "provider"
          /\ Len(chatCallLog) = chatRaisedAt
          /\ Len(chatResponses) = chatRaisedAt - 1
          /\ Len(chatToolResults) = chatRaisedAt - 1
          /\ Len(gatewayCalls) <= chatRaisedAt - 1
    /\ \A k \in 1..Len(provided) :
          provided[k] = RaisedChunk =>
            /\ streamPc = "raised"
            /\ streamError = "provider"
            /\ k = Len(provided)
            /\ Len(streamRounds) = Len(streamToolResults) + 1
            /\ Len(streamGateway) <= Len(streamToolResults)

\* the provider raised in the second round of a chat, after a tool round that
\* went through the gateway
C12_Witness ==
    /\ chatPc = "raised"
    /\ chatError = "provider"
    /\ chatRaisedAt = 2
    /\ Len(chatResponses) = 1
    /\ Len(gatewayCalls) = 1

\* messages added to a context by the tool rounds before round i
RECURSIVE RoundOffset(_, _)
RoundOffset(toolResults, i) ==
    IF i = 1 THEN 0
    ELSE RoundOffset(toolResults, i - 1) + 1 + Len(toolResults[i - 1])

\* tool round i of a request left, in the context ctx that began with base
\* messages, one assistant message with the round's calls followed by one
\* tool message per call, in call order, holding that call's result
RoundInContext(ctx, base, toolResults, i) ==
    LET at == base + RoundOffset(toolResults, i) + 1
        results == toolResults[i]
    IN /\ at + Len(results) <= Len(ctx)
       /\ ctx[at].role = "assistant"
       /\ Len(results) = Len(ctx[at].tool_calls)
       /\ \A j \in 1..Len(results) :
             /\ results[j].tool_call_id = ctx[at].tool_calls[j].id
             /\ ctx[at + j].role = "tool"
             /\ ctx[at + j].tool_call_id = ctx[at].tool_calls[j].id
             /\ ctx[at + j].content = results[j].content

HasFailure(results) == \E j \in 1..Len(results) : results[j].is_error

\* C13: when one or more tool calls of a round fail, neither the batch nor the
\* tool loop is aborted: chat and stream append the error-flagged results to
\* the context as tool messages, one per call (every round leaves one tool
\* message per call, whatever failed), and go on to the next provider round
\* (below the iteration ceiling, where the loop ends for every round).
C13_ToolFailuresDoNotAbort ==
    /\ \A i \in 1..Len(chatToolResults) :
          RoundInContext(chatMessages, Len(chatArgs.history) + 1, chatToolResults, i)
    /\ \A i \in 1..Len(streamToolResults) :
          RoundInContext(streamMessages, Len(streamArgs.history) + 1, streamToolResults, i)
    /\ \A i \in 1..Len(chatToolResults) :
          HasFailure(chatToolResults[i]) =>
            /\ chatError \notin {"tool", "gateway"}
            /\ i < maxIter => /\ Len(chatCallLog) >= i + 1
                               /\ chatCallLog[i + 1].context =
                                     SubSeq(chatMessages, 1,
                                            Len(chatCallLog[i + 1].context))
                               /\ Len(chatCallLog[i + 1].context) =
                                     Len(chatArgs.history) + 1
                                       + RoundOffset(chatToolResults, i)
                                       + 1 + Len(chatToolResults[i])
    /\ \A i \in 1..Len(streamToolResults) :
          HasFailure(streamToolResults[i]) =>
            /\ streamError \notin {"tool", "gateway"}
            /\ i < maxIter => /\ Len(streamRounds) >= i + 1
                               /\ streamRounds[i + 1].context =
                                     SubSeq(streamMessages, 1,
                                            Len(streamRounds[i + 1].context))
                               /\ Len(streamRounds[i + 1].context) =
                                     Len(streamArgs.history) + 1
                                       + RoundOffset(streamToolResults, i)
                                       + 1 + Len(streamToolResults[i])

\* a stream whose first round asked for two tools through the gateway, one of
\* which failed, and whose second provider round is running
C13_Witness ==
    /\ streamPc = "streaming"
    /\ hasMcp /\ mcpEnabled
    /\ Len(streamRounds) = 2
    /\ Len(streamToolResults) = 1
    /\ Len(streamToolResults[1]) = 2
    /\ streamToolResults[1][1].is_error
    /\ ~streamToolResults[1][2].is_error

-----------------------------------------------------------------------------
(* Claims about LLMService.stream *)

\* C4: when a round reaches its terminal chunk with at least one ToolCall
\* buffered, the engine executes the calls, appends the messages, yields the
\* marker and starts a new round; the terminal chunk is forwarded and the
\* sequence ends only when no tool call was buffered. So, below the iteration
\* ceiling, a stream never ends on a round that reached its terminal chunk
\* with tool calls in the buffer.
C4_BufferedCallsAreExecuted ==
    (streamPc = "ended" /\ roundDone /\ streamIter < maxIter) => accCalls = <<>>

\* C5: a chunk sequence that ends without an exception holds exactly one chunk
\* with done = true, and it is the last one (stated for services with a
\* ceiling of at least one round whose providers always yield a terminal chunk).
C5_ExactlyOneDoneChunkLast ==
    (streamPc = "ended" /\ maxIter >= 1 /\ allRoundsDone) =>
        /\ delivered # <<>>
        /\ delivered[Len(delivered)].done
        /\ \A i \in 1..(Len(delivered) - 1) : ~delivered[i].done

\* C6: if every round up to the iteration ceiling N ends with buffered tool
\* calls, the stream fails with the max-tool-iterations error after N rounds
\* instead of ending normally.
C6_StreamFailsAtCeiling ==
    (streamPc \in {"ended", "raised"} /\ maxIter >= 1 /\ toolRounds = maxIter) =>
        /\ streamPc = "raised"
        /\ streamError = "max_tool_iterations"
        /\ Len(streamRounds) = maxIter

\* C14: every provider stream() sequence that ends without raising has at
\* least one chunk with done = true, and it is its final chunk, whatever the
\* vendor stream delivered (also a vendor stream that ends without a finish or
\* stop event).
C14_ProviderStreamEndsWithDone ==
    (/\ streamPc \in {"executing_tools", "ended"}
     /\ streamError # "provider"
     /\ netStream = "released") =>
        /\ provided # <<>>
        /\ provided[Len(provided)].done

HasContent(chunk) == chunk.content # <<>>

FromProvider(chunk) == chunk.content # <<>> /\ chunk # MarkerChunk

\* C15: the content chunks delivered to the consumer are exactly the
\* provider's content-bearing chunks, in generation order, each delivered
\* once: none is dropped, duplicated, reordered or held back (the equality
\* holds after every chunk, not only at the end of a round); the engine adds
\* only its own marker, one per finished tool round.
C15_ContentDeliveredInOrder ==
    /\ SelectSeq(delivered, FromProvider) = SelectSeq(provided, HasContent)
    /\ Len(SelectSeq(delivered, HasContent)) =
          Len(SelectSeq(provided, HasContent)) + toolRounds

\* two different content chunks were delivered in a round that is still open
C15_Witness ==
    /\ streamPc = "streaming"
    /\ ~roundDone
    /\ delivered = <<ContentChunk(<<"Hel">>), ContentChunk(<<"lo">>)>>

NotDone(chunk) == ~chunk.done

\* C16: for a provider stream that emits content chunks C1..Cn followed by a
\* done chunk, the concatenation of the content of all non-done chunks
\* delivered by stream equals the content of the response chat returns against
\* the equivalent fixed response C1 + ... + Cn.
C16_StreamTextEqualsChatText ==
    (/\ streamPc = "ended"
     /\ streamExit = "terminal_chunk"
     /\ chatPc = "returned") =>
        /\ ConcatContent(SelectSeq(delivered, NotDone)) = chatReturn.content
        /\ chatReturn.content = ConcatContent(SelectSeq(provided, NotDone))

\* the provider generated "Hel", "lo" and its done chunk; stream has ended and
\* chat has returned
C16_Witness ==
    /\ streamPc = "ended"
    /\ chatPc = "returned"
    /\ Len(provided) = 3
    /\ provided[1].content = <<"Hel">>
    /\ provided[2].content = <<"lo">>
    /\ chatReturn.content = <<"Hel", "lo">>

-----------------------------------------------------------------------------
(* Claims about health checks *)

AllCandidatesFailed ==
    /\ Len(hpProbed) = Len(CandidateList)
    /\ \A i \in 1..Len(hpProbed) : hpProbed[i].outcome # "true"

\* C17: get_healthy_provider fails with the no-healthy-provider error exactly
\* when every candidate of the list failed its health probe (an empty list
\* included); in every other case it returns a provider whose probe returned
\* true.
C17_FailsExactlyWhenAllFailed ==
    /\ hpPc = "raised" => AllCandidatesFailed /\ hpRet = NoInstance
    /\ (hpPc # "idle" /\ AllCandidatesFailed) => hpPc \in {"probing", "raised"}
    /\ hpPc = "returned" =>
          /\ ~AllCandidatesFailed
          /\ hpRet # NoInstance
          /\ [kind |-> hpRet.kind, outcome |-> "true"] \in Range(hpProbed)
          /\ regCache[hpRet.kind] = hpRet

\* the call failed after three candidates: one could not be built, one
\* answered false and the probe of one raised
C17_Witness ==
    /\ hpPc = "raised"
    /\ Len(hpProbed) = 3
    /\ {hpProbed[i].outcome : i \in 1..3} = {"no_instance", "false", "raises"}

VendorFailures == {"auth_error", "network_error", "model_missing"}

\* C18: health_check of each of the four providers never raises: every failure
\* of the underlying probe call (authentication, network, missing model, any
\* exception) yields the value false.
C18_HealthCheckNeverRaises ==
    \A i \in 1..Len(shProbes) :
        /\ ~shProbes[i].raised
        /\ shProbes[i].vendor \in VendorFailures => ~shProbes[i].value
        /\ shProbes[i].value => shProbes[i].vendor \in {"response", "model_listed"}

\* one health_check call probed all four providers and the vendor call of
\* each failed
C18_Witness ==
    /\ shPc = "returned"
    /\ Len(shProbes) = 4
    /\ {shProbes[i].kind : i \in 1..4} = Kinds
    /\ \A i \in 1..4 : shProbes[i].vendor \in VendorFailures
    /\ \E i \in 1..4 : shProbes[i].vendor = "auth_error"
    /\ \E i \in 1..4 : shProbes[i].vendor = "model_missing"

\* the provider names a finished health_check call was asked about
CheckedNames == IF shName # None THEN {shName} ELSE available

\* C19: LLMService.health_check returns a mapping whose keys are provider
\* names (the named provider, or every available provider when none is named)
\* and whose values are all booleans, also when a provider cannot be
\* constructed or its probe fails.
C19_MapsProviderNamesToBooleans ==
    shPc = "returned" =>
        /\ {e.key : e \in shResults} = {<<n>> : n \in CheckedNames}
        /\ \A e \in shResults : e.value.type = "bool"

\* C20: on every exit path of a streaming request (normal end, the consumer
\* stopping early, the engine returning on a terminal chunk, or an exception)
\* the provider's underlying network stream is released: no reachable state
\* has the request ended and the stream still acquired.
C20_StreamReleasedWhenRequestEnds ==
    streamPc \in {"ended", "raised", "closed"} => netStream # "acquired"

-----------------------------------------------------------------------------
(* Claims about concurrent requests on the registry *)

\* the requests that received an instance for cache key k
Received(k) == {r \in Requests : reqKey[r] = k /\ reqPc[r] \in {"awaiting", "done"}}

\* C21: under any interleaving of concurrent requests calling
\* get_or_create_provider with the same key, without clear_cache, at most one
\* instance is ever constructed for the key, and once a caller has received
\* an instance exactly one was constructed and every caller of that key has
\* received that same instance, the one the cache holds.
C21_OneInstancePerKey ==
    \A k \in CacheKeys :
        /\ ctorCount[k] <= 1
        /\ \A r \in Received(k) :
              /\ ctorCount[k] = 1
              /\ reqGot[r] # NoInstance
              /\ reqGot[r] = regCache[k]
        /\ \A r1 \in Received(k), r2 \in Received(k) : reqGot[r1] = reqGot[r2]

\* two requests of the same key are awaiting their provider at the same time,
\* after an earlier construction for that key failed
C21_Witness ==
    \E r1 \in Requests, r2 \in Requests, r3 \in Requests :
        /\ r1 # r2
        /\ reqPc[r1] = "awaiting" /\ reqPc[r2] = "awaiting"
        /\ reqKey[r1] = reqKey[r2]
        /\ reqGot[r1] = reqGot[r2] /\ reqGot[r1] # NoInstance
        /\ reqPc[r3] = "failed" /\ reqKey[r3] = reqKey[r1]

-----------------------------------------------------------------------------
(* Claims about the disabled gateway and unknown tools *)

\* C22: when the gateway is disabled, execute_tool returns for every call a
\* result with is_error true that carries the id of that call, and no request
\* is sent to the tool-execution endpoint.
C22_DisabledAnswersWithoutRequest ==
    ~mcpEnabled =>
        /\ requestsSent = <<>>
        /\ \A i \in DOMAIN taskPc :
              /\ taskPc[i] # "posted"
              /\ taskPc[i] = "done" =>
                    /\ taskReply[i] = NoReply
                    /\ taskOutcome[i].kind = "returned"
                    /\ taskOutcome[i].result.is_error = TRUE
                    /\ taskOutcome[i].result.tool_call_id = etCalls[i].id
        /\ etPc = "returned" =>
              \A i \in DOMAIN etResults :
                  /\ etResults[i].is_error = TRUE
                  /\ etResults[i].tool_call_id = etCalls[i].id

\* a disabled gateway has answered a batch of two calls
C22_Witness ==
    /\ ~mcpEnabled
    /\ etPc = "returned"
    /\ Len(etCalls) = 2
    /\ Len(etResults) = 2
    /\ etCalls[1] # etCalls[2]

NotFound == [kind |-> "status", code |-> 404]

\* C23: a 404 answer of the endpoint for one invocation gives a result with
\* is_error true for that call only: the batch does not fail, every call of the
\* batch is sent to the endpoint, and every other call's result is the one its
\* own answer determines.
C23_NotFoundIsAResultOfThatCall ==
    /\ \A i \in DOMAIN taskPc :
          (taskPc[i] = "done" /\ taskReply[i] = NotFound) =>
             taskOutcome[i] =
                Returned(ToolResult(etCalls[i].id,
                                    <<"Tool '", etCalls[i].name, "' not found">>, TRUE))
    /\ (etPc \in {"returned", "raised"}
          /\ \E i \in DOMAIN taskReply : taskReply[i] = NotFound) =>
          /\ etPc = "returned"
          /\ Len(etResults) = Len(etCalls)
          /\ Len(requestsSent) = Len(etCalls)
          /\ \A j \in DOMAIN etResults :
                /\ etResults[j].tool_call_id = etCalls[j].id
                /\ taskReply[j] = NotFound =>
                      /\ etResults[j].is_error = TRUE
                      /\ etResults[j].content = <<"Tool '", etCalls[j].name, "' not found">>
                /\ taskReply[j] = JsonBody("str", <<"ok">>, "absent") =>
                      etResults[j] = ToolResult(etCalls[j].id, <<"ok">>, FALSE)

\* a batch of two returned: one call answered 404, the other answered normally
C23_Witness ==
    /\ etPc = "returned"
    /\ Len(etCalls) = 2
    /\ taskReply[1] = NotFound
    /\ taskReply[2] = JsonBody("str", <<"ok">>, "absent")
    /\ etResults[1].is_error = TRUE
    /\ etResults[2] = ToolResult(etCalls[2].id, <<"ok">>, FALSE)

-----------------------------------------------------------------------------
(* Claims about provider streams *)

\* the ToolCalls a sequence of chunks carries, in order
RECURSIVE CallsOf(_)
CallsOf(chunks) ==
    IF chunks = <<>> THEN <<>> ELSE Head(chunks).tool_calls \o CallsOf(Tail(chunks))

\* the text a sequence of chunks carries
RECURSIVE TextOf(_)
TextOf(chunks) ==
    IF chunks = <<>> THEN <<>> ELSE Head(chunks).content \o TextOf(Tail(chunks))

EmittedWithId(id) == SelectSeq(CallsOf(pvOut), LAMBDA c : c.id = id)

\* the arguments the text of an invocation stands for: {} when it is not JSON
ArgumentsOf(text) == IF JsonLoads(text).ok THEN JsonLoads(text).value ELSE EmptyArguments

ClosedInvocations == {i \in DOMAIN pvSent : pvSent[i].closed}

\* C24: in the stream of the Anthropic and of the OpenAI provider, no ToolCall
\* is emitted for a tool invocation before the vendor has closed it
\* (content_block_stop, a finish reason); once closed, exactly one ToolCall has
\* been emitted for it, with the invocation's id and name and the arguments
\* parsed from all its fragments concatenated in arrival order; nothing else
\* is ever emitted as a ToolCall.
C24_ToolCallEmittedOnceWhenClosed ==
    pvKind \in {"anthropic", "openai"} =>
        /\ \A i \in DOMAIN pvSent :
              LET inv == pvSent[i]
                  em == EmittedWithId(inv.id)
              IN /\ Len(em) = (IF inv.closed THEN 1 ELSE 0)
                 /\ inv.closed =>
                       em[1] = ToolCallWithArgs(inv.id, inv.name, ArgumentsOf(inv.text))
        /\ Len(CallsOf(pvOut)) = Cardinality(ClosedInvocations)

\* OpenAI closed two invocations whose fragments arrived interleaved, the
\* first one in more than one fragment
C24_Witness ==
    /\ pvKind = "openai"
    /\ Len(pvSent) = 2
    /\ pvSent[1].closed /\ pvSent[2].closed
    /\ pvSent[1].text = <<"{", "k", "}">>
    /\ pvSent[2].text # <<>>
    /\ Len(CallsOf(pvOut)) = 2
    /\ CallsOf(pvOut)[1].arguments = <<"k">>

InvalidInvocations ==
    {i \in ClosedInvocations : pvSent[i].isStr /\ ~JsonLoads(pvSent[i].text).ok}

\* C25: argument text that is not valid JSON does not abort a provider
\* stream: the stream raises only when the vendor's stream raises, the
\* ToolCall of such an invocation is emitted with empty arguments and the
\* invocation's name (and id, when the vendor gave one), every piece of text
\* the vendor sent is delivered, and once the vendor has sent its terminal
\* event the last chunk delivered is the terminal chunk.
C25_InvalidJsonGivesEmptyArguments ==
    /\ pvPc = "raised" => pvVendorRaised
    /\ \A i \in InvalidInvocations :
          \E k \in DOMAIN CallsOf(pvOut) :
              LET c == CallsOf(pvOut)[k]
              IN /\ c.arguments = EmptyArguments
                 /\ c.name = pvSent[i].name
                 /\ pvSent[i].id # <<>> => c.id = pvSent[i].id
    /\ TextOf(pvOut) = pvText
    /\ pvFinished => (pvOut # <<>> /\ pvOut[Len(pvOut)].done)

\* Anthropic closed an invocation whose text is not JSON and then sent
\* its terminal event, which was delivered
C25_Witness ==
    /\ pvKind = "anthropic"
    /\ pvFinished
    /\ \E i \in InvalidInvocations : pvSent[i].text # <<>>
    /\ Len(CallsOf(pvOut)) = 1
    /\ CallsOf(pvOut)[1].arguments = EmptyArguments
    /\ pvOut[Len(pvOut)].done

\* C26: the ids of the ToolCalls emitted during one stream are pairwise
\* distinct, for every provider, also when the model calls the same tool more
\* than once.
C26_ToolCallIdsDistinct ==
    \A i \in DOMAIN CallsOf(pvOut), j \in DOMAIN CallsOf(pvOut) :
        i # j => CallsOf(pvOut)[i].id # CallsOf(pvOut)[j].id

-----------------------------------------------------------------------------
(* Claims about the correlation of tool messages *)

\* every tool message of the context carries the id of a ToolCall that an
\* assistant message earlier in the context carries
ToolMessagesCorrelated(ctx) ==
    \A i \in DOMAIN ctx :
        ctx[i].role = "tool" =>
            \E j \in 1..(i - 1) :
                /\ ctx[j].role = "assistant"
                /\ \E k \in DOMAIN ctx[j].tool_calls :
                      ctx[j].tool_calls[k].id = ctx[i].tool_call_id

\* C27: in every context the engine sends to a provider, in any round of chat
\* or of stream, each tool message carries a tool_call_id equal to the id of a
\* ToolCall carried by an assistant message earlier in that context.
C27_ToolMessagesReferToEarlierCalls ==
    /\ \A i \in DOMAIN chatCallLog : ToolMessagesCorrelated(chatCallLog[i].context)
    /\ \A i \in DOMAIN streamRounds : ToolMessagesCorrelated(streamRounds[i].context)

\* the second round of a stream is sent a context with two tool messages that
\* refer to different calls of the assistant message before them
C27_Witness ==
    /\ Len(streamRounds) = 2
    /\ LET ctx == streamRounds[2].context
           n == Len(ctx)
       IN /\ n >= 4
          /\ ctx[n].role = "tool" /\ ctx[n - 1].role = "tool"
          /\ ctx[n].tool_call_id # ctx[n - 1].tool_call_id
          /\ ctx[n - 2].role = "assistant"
          /\ Len(ctx[n - 2].tool_calls) = 2

-----------------------------------------------------------------------------
(* Claims about the vendor formats *)

\* the correlation id a vendor message carries: its tool_call_id, or the id of
\* its first entry (Anthropic's tool_use_id)
CorrelationId(v) ==
    IF v.tool_call_id # NoId THEN v.tool_call_id
    ELSE IF v.entries # <<>> THEN v.entries[1].id
    ELSE NoId

\* C28: for every tool-role ChatMessage and each of the four vendor formats,
\* the translated message carries the message's tool_call_id unchanged, so
\* that it can be recovered from the vendor message.
C28_ToolCallIdPreserved ==
    ("formats" \in fmDone /\ fmMsg.role = "tool") =>
        \A f \in Formats : CorrelationId(fmOut[f]) = fmMsg.tool_call_id

\* the text in front of a vendor message's tool invocations
LeadingText(v) ==
    IF v.content # <<>> THEN v.content
    ELSE IF v.entries # <<>> /\ v.entries[1].type = "text" THEN v.entries[1].text
    ELSE <<>>

\* the entries of a vendor message that are not text
Invocations(v) == SelectSeq(v.entries, LAMBDA e : e.type # "text")

\* C29: an assistant message carrying ToolCalls translates, for every vendor
\* format, to its text (a text entry is present only when the text is not
\* empty) followed by one tool-invocation entry per ToolCall, in the same
\* order, each with the id, the name and the arguments of its call.
C29_AssistantToolCallsVerbatim ==
    ("formats" \in fmDone /\ fmMsg.role = "assistant" /\ fmMsg.tool_calls # <<>>) =>
        \A f \in Formats :
            LET v == fmOut[f]
                inv == Invocations(v)
            IN /\ LeadingText(v) = fmMsg.content
               /\ \A i \in DOMAIN v.entries :
                     v.entries[i].type = "text" => (i = 1 /\ v.entries[i].text # <<>>)
               /\ Len(inv) = Len(fmMsg.tool_calls)
               /\ \A i \in DOMAIN inv :
                     /\ inv[i].id = fmMsg.tool_calls[i].id
                     /\ inv[i].name = fmMsg.tool_calls[i].name
                     /\ inv[i].arguments = fmMsg.tool_calls[i].arguments

\* C30: translating the list of one system message S followed by one user
\* message U for Gemini yields the user part "[System]: S" and then the user
\* part U, in this order.
C30_GeminiSystemThenUser ==
    ("list" \in fmDone /\ fmList = <<SystemMessage, UserMessage>>) =>
        fmConv.messages =
            << VendorMessage("user", <<>>,
                             <<TextEntry(SystemPrefix(SystemMessage.content))>>, NoId),
               VendorMessage("user", <<>>, <<TextEntry(UserMessage.content)>>, NoId) >>

-----------------------------------------------------------------------------
(* Claims about tool parameter schemas *)

\* out is the translation of the schema in as stated: the kept keys of in and
\* no other key, the type name upper-cased, required, enum and description
\* unchanged, and the same for every property and for the items
RECURSIVE Translated(_, _)
Translated(in, out) ==
    /\ out.has = in.has \cap KeptKeys
    /\ "type" \in in.has => out.type = Upper(in.type)
    /\ out.required = in.required
    /\ out.enum = in.enum
    /\ out.description = in.description
    /\ Len(out.properties) = Len(in.properties)
    /\ \A i \in DOMAIN in.properties :
          /\ out.properties[i].name = in.properties[i].name
          /\ Translated(in.properties[i].schema, out.properties[i].schema)
    /\ Len(out.items) = Len(in.items)
    /\ \A i \in DOMAIN in.items : Translated(in.items[i], out.items[i])

\* C31: translating a tool's parameter schema for Gemini upper-cases the type
\* name at every nesting level, through properties and items, keeps
\* properties, required, items, enum and description, and drops every other
\* key; {type: object, properties: {q: {type: string}}, required: [q]} becomes
\* {type: OBJECT, properties: {q: {type: STRING}}, required: [q]}.
C31_SchemaUpperCasedAndSimplified ==
    /\ "tool" \in scDone => Translated(scIn, scTool)
    /\ "provider" \in scDone => Translated(scIn, scProvider)

-----------------------------------------------------------------------------
(* Claims about what a request depends on *)

\* the supplied history followed by the new user message
FirstContext(args) ==
    [i \in 1..Len(args.history) |->
        [role |-> args.history[i].role, content |-> args.history[i].content,
         tool_calls |-> <<>>, tool_call_id |-> None]]
    \o <<[role |-> "user", content |-> args.message, tool_calls |-> <<>>,
          tool_call_id |-> None]>>

C33_AllRoundsToTheResolvedInstance ==
    /\ hpPc = "idle" /\ hpProbed = <<>>
    /\ chatCallLog # <<>> => chatProvider = regLast.ret
    /\ \A i \in 1..Len(chatCallLog) : chatCallLog[i].provider = regLast.ret.id
    /\ streamRounds # <<>> => streamProvider = regLast.ret
    /\ \A i \in 1..Len(streamRounds) : streamRounds[i].provider = regLast.ret.id
    /\ chatError = "provider" => chatRaisedAt = Len(chatCallLog)
    /\ streamError = "provider" => Len(streamRounds) = streamIter

\* the provider failed in the second round of a chat while the registry held
\* another instance as well
C33_Witness ==
    /\ chatError = "provider"
    /\ Len(chatCallLog) = 2
    /\ \E k \in CacheKeys : regCache[k] \notin {NoInstance, chatProvider}

-----------------------------------------------------------------------------
(* Claims about the buffers of a streamed round *)

\* the messages stream appended to the context it started with
AppendedMessages ==
    SubSeq(streamMessages, Len(streamArgs.history) + 2, Len(streamMessages))

\* the assistant messages among them, one per round that asked for tools
AssistantRounds == SelectSeq(AppendedMessages, LAMBDA m : m.role = "assistant")

RECURSIVE JoinField(_, _)
JoinField(seq, field) ==
    IF seq = <<>> THEN <<>> ELSE seq[1][field] \o JoinField(Tail(seq), field)

\* the buffers of the round in progress, while they are not yet in a message
OpenRound ==
    IF streamPc = "executing_tools" \/ streamExit = "max_iterations"
    THEN [tool_calls |-> <<>>, content |-> <<>>]
    ELSE [tool_calls |-> accCalls, content |-> accContent]

\* C34: the buffers of LLMService.stream are reset at the start of every
\* round. The batches of the rounds, one after the other and followed by the
\* buffer of the round in progress, are exactly the ToolCalls the provider
\* emitted, in emission order and each once, so the batch of round k holds
\* round k's calls only; the texts of the assistant messages are likewise the
\* text the provider emitted, each piece in one message; and the batch handed
\* to the gateway in a round is the batch of that round's assistant message.
C34_BuffersResetEveryRound ==
    /\ JoinField(AssistantRounds, "tool_calls") \o OpenRound.tool_calls
           = JoinField(provided, "tool_calls")
    /\ JoinField(AssistantRounds, "content") \o OpenRound.content
           = JoinField(provided, "content")
    /\ hasMcp => streamGateway = [k \in 1..Len(AssistantRounds) |->
                                     AssistantRounds[k].tool_calls]
    /\ \A k \in 1..Len(streamToolResults) :
           /\ k <= Len(AssistantRounds)
           /\ Len(streamToolResults[k]) = Len(AssistantRounds[k].tool_calls)

\* a second round that gathers tool calls of its own after a first round
\* whose batch has been executed
C34_Witness ==
    /\ Len(AssistantRounds) = 1
    /\ AssistantRounds[1].tool_calls # <<>>
    /\ Len(streamToolResults) = 1
    /\ streamPc = "streaming"
    /\ accCalls # <<>>

-----------------------------------------------------------------------------
(* Claims about the finish reason of a streamed round *)

\* the terminal chunk of the stream, once it was yielded
TerminalYielded == pvOut # <<>> /\ pvOut[Len(pvOut)].done

\* C35: for each provider the finish reason on the terminal chunk of stream()
\* is the canonical finish reason chat() reports for the same vendor outcome:
\* tool_calls when the vendor requested tool use, length when the round was
\* truncated, error when it was filtered.
C35_StreamFinishReasonAsChat ==
    TerminalYielded =>
        pvOut[Len(pvOut)].finish_reason
            = ChatFinishReason(pvKind, pvSent # <<>>, pvReason)

-----------------------------------------------------------------------------
(* Claims about the model a request is served with *)

\* C36: after any sequence of chat and stream requests, with or without model
\* overrides, the instance cached under a provider's default key is configured
\* with that provider's default model, so a request with an override never
\* changes the model a later request without override is served with.
C36_DefaultKeyHoldsDefaultModel ==
    \A k \in Kinds : regCache[k] # NoInstance => regCache[k].model = DefaultModel(k)


\* C37: a chat or stream request carrying a model override M is served by a
\* provider instance of the requested provider whose model is M, whatever the
\* registry cache held before the request.
C37_OverrideServedWithThatModel ==
    (regLast.op = "_get_provider" /\ regLast.model # None /\ ~regLast.raised) =>
        /\ regLast.ret.model = regLast.model
        /\ regLast.ret.kind = regLast.key

\* an override request that found an instance with the default model in the
\* cache under the provider's key
C37_Witness ==
    /\ regLast.op = "_get_provider"
    /\ regLast.model = CustomModel
    /\ ~regLast.raised
    /\ regLast.cacheBefore[regLast.key] # NoInstance
    /\ regLast.cacheBefore[regLast.key].model = DefaultModel(regLast.key)
    /\ regLast.ret.model = CustomModel

-----------------------------------------------------------------------------
(* Claims about requests made without tools *)

\* no round of the request was given tool definitions
NoToolsPassed ==
    /\ ~chatArgs.use_tools => \A i \in 1..Len(chatCallLog) : chatCallLog[i].tools = None
    /\ ~streamArgs.use_tools => \A i \in 1..Len(streamRounds) : streamRounds[i].tools = None

\* C38: when chat or stream is called with use_tools=false, no tool
\* definitions are passed to the provider in any round and the gateway's
\* execute_tools is never called during that invocation.
C38_NoToolsNoExecution ==
    /\ NoToolsPassed
    /\ ~chatArgs.use_tools => gatewayCalls = <<>>
    /\ ~streamArgs.use_tools => streamGateway = <<>>

-----------------------------------------------------------------------------
(* Claims about exceptions inside get_healthy_provider *)

\* the candidates whose construction or health probe raised
RaisedCandidates ==
    {i \in 1..Len(hpProbed) : hpProbed[i].outcome \in {"no_instance", "raises"}}

\* C39: in get_healthy_provider a candidate whose construction or health
\* probe raises is treated as unhealthy: the exception does not leave the
\* call, which fails only once the whole list was tried, and the loop moves
\* on to the next candidate in order, which is the next one probed.
C39_RaisingCandidateIsUnhealthy ==
    /\ hpPc = "raised" => hpIdx > Len(hpTry) /\ Len(hpProbed) = Len(hpTry)
    /\ \A i \in RaisedCandidates :
          /\ hpProbed[i].kind = hpTry[i]
          /\ hpIdx > i
          /\ i < Len(hpProbed) => hpProbed[i + 1].kind = hpTry[i + 1]
          /\ (i = Len(hpProbed) /\ hpPc = "awaiting") => hpRet.kind = hpTry[i + 1]
          /\ i = Len(hpProbed) => hpPc # "returned"

\* the first candidate could not be constructed, the probe of the second
\* raised, and the third was probed and returned
C39_Witness ==
    /\ hpPc = "returned"
    /\ Len(hpProbed) = 3
    /\ hpProbed[1].outcome = "no_instance"
    /\ hpProbed[2].outcome = "raises"
    /\ hpProbed[3].outcome = "true"
    /\ hpRet.kind = hpTry[3]

====
